---- MODULE Spec2Model ----
(***************************************************************************)
(* The self-update pipeline of MainOrchestrator.process_command            *)
(* (propose_self_update) over the AIUpdater file operations.               *)
(*                                                                         *)
(* Text is a sequence of symbols.  A marker "===NAME===" is the three      *)
(* symbols "=", NAME, "=", so that two markers can share a "=" the way the *)
(* real ones share "===".  Code symbols: "a", "b" and "o" are well-formed  *)
(* statements, "x" is an ill-formed one, " " is whitespace.                *)
(* A path is a sequence of symbols too, "/" being os.sep.                  *)
(***************************************************************************)
EXTENDS Integers, Sequences, FiniteSets, TLC

\* ------------------------------------------------------------------ bounds

\* Commands processed one after the other by chat_loop.
MaxRuns == 2
\* Distinct values datetime.now() can return (it is wall-clock time: it may repeat).
MaxClock == 2
\* Invalid answers the operator gives at one confirmation prompt.
MaxInvalid == 1

\* -------------------------------------------------------------------- text

\* Python's None, as a text no bundle contains.
None == <<"None">>

Whitespace == {" "}

main_code_marker == <<"=", "BEGIN_MAIN_CODE", "=">>
end_main_code_marker == <<"=", "END_MAIN_CODE", "=">>
test_code_marker == <<"=", "BEGIN_TEST_CODE", "=">>
end_test_code_marker == <<"=", "END_TEST_CODE", "=">>

\* sub occurs in text at position i (1-based).
Occurs(text, sub, i) ==
    /\ i >= 1
    /\ i + Len(sub) - 1 <= Len(text)
    /\ SubSeq(text, i, i + Len(sub) - 1) = sub

\* str.index(sub, start): the lowest position >= start where sub occurs;
\* 0 stands for the ValueError of a sub that does not occur.
StrIndex(text, sub, start) ==
    LET hits == {i \in start..Len(text) : Occurs(text, sub, i)}
    IN  IF hits = {} THEN 0 ELSE CHOOSE i \in hits : \A j \in hits : i <= j

RECURSIVE LStrip(_)
LStrip(s) == IF s # <<>> /\ Head(s) \in Whitespace THEN LStrip(Tail(s)) ELSE s

RECURSIVE RStrip(_)
RStrip(s) ==
    IF s # <<>> /\ s[Len(s)] \in Whitespace
    THEN RStrip(SubSeq(s, 1, Len(s) - 1))
    ELSE s

\* str.strip()
Strip(s) == RStrip(LStrip(s))

\* A mutant of extract_code_between_markers: the end marker is searched from
\* the start of the text.
extract_code_between_markers_EndFromStart(text, start_marker, end_marker) ==
    LET found == StrIndex(text, start_marker, 1)
        start_index == found + Len(start_marker)
        end_index == StrIndex(text, end_marker, 1)
    IN  IF found = 0 THEN None
        ELSE IF end_index = 0 THEN None
        ELSE Strip(SubSeq(text, start_index, end_index - 1))

extract_code_between_markers(text, start_marker, end_marker) ==
    LET found == StrIndex(text, start_marker, 1)
        start_index == found + Len(start_marker)
        end_index == StrIndex(text, end_marker, start_index)
    IN  IF found = 0 THEN None
        ELSE IF end_index = 0 THEN None
        ELSE Strip(SubSeq(text, start_index, end_index - 1))

\* Python's "not x" for a text or None.
Falsy(x) == x = None \/ x = <<>>

\* ast.parse(code) returns (TRUE) or raises SyntaxError (FALSE): the markers
\* and "x" are not Python.
ast_parse(code) == \A i \in 1..Len(code) : code[i] \in {"a", "b", "o", " "}

\* ------------------------------------------------------------------- paths

relative_target_path == <<"utils", "/", "generated_utils.py">>

Basename(p) ==
    LET seps == {i \in 1..Len(p) : p[i] = "/"}
    IN  IF seps = {} THEN p
        ELSE SubSeq(p, (CHOOSE i \in seps : \A j \in seps : j <= i) + 1, Len(p))

Dirname(p) ==
    LET seps == {i \in 1..Len(p) : p[i] = "/"}
    IN  IF seps = {} THEN <<>>
        ELSE SubSeq(p, 1, (CHOOSE i \in seps : \A j \in seps : j <= i) - 1)

relative_test_target_path ==
    <<"tests", "/", "staged_tests", "/", "test_">> \o Basename(relative_target_path)

\* relative_path.replace(os.sep, '_')
Sanitize(p) == [i \in 1..Len(p) |-> IF p[i] = "/" THEN "_" ELSE p[i]]

\* ------------------------------------------------------------- file system

\* What is at a path: nothing, a file with one content, or a directory; a
\* directory's data are the contents of the files below it that are not
\* paths of their own.
Absent == [kind |-> "absent", data |-> {}]
File(c) == [kind |-> "file", data |-> {c}]
Dir(S) == [kind |-> "dir", data |-> S]

\* The paths of the live tree (base_code_dir) and of the staging area.
LivePaths == {Dirname(relative_target_path), relative_target_path, relative_test_target_path}
StagePaths == {relative_target_path, relative_test_target_path}

\* os.path.exists(base_code_dir/rel): the parent must be a directory.
LiveExists(lv, rel) ==
    /\ lv[rel].kind # "absent"
    /\ Dirname(rel) \in DOMAIN lv => lv[Dirname(rel)].kind = "dir"

\* ---------------------------------------------------------------- AIUpdater

\* A mutant of stage_code_from_source: the missing source is found by the
\* copy, whose error is wrapped like every other.
stage_code_from_source_WrapsNotFound(stg, source, rel, fault) ==
    IF source.kind = "absent" \/ fault
    THEN [raised |-> "FileOperationError", staging |-> stg]
    ELSE IF source.kind = "dir"
    THEN IF stg[rel].kind = "file"
         THEN [raised |-> "FileOperationError", staging |-> stg]
         ELSE [raised |-> "none", staging |-> [stg EXCEPT ![rel] = source]]
    ELSE IF stg[rel].kind = "dir"
    THEN [raised |-> "none",
          staging |-> [stg EXCEPT ![rel] = Dir(stg[rel].data \cup source.data)]]
    ELSE [raised |-> "none", staging |-> [stg EXCEPT ![rel] = source]]

\* stage_code_from_source(source_path, relative_target_path) on the staging
\* area stg; source is what is at source_path, fault an I/O error of the copy.
stage_code_from_source(stg, source, rel, fault) ==
    IF source.kind = "absent"
    THEN [raised |-> "FileNotFoundError", staging |-> stg]
    ELSE IF fault
    THEN [raised |-> "FileOperationError", staging |-> stg]
    ELSE IF source.kind = "dir"
    \* shutil.rmtree of a staged file raises NotADirectoryError
    THEN IF stg[rel].kind = "file"
         THEN [raised |-> "FileOperationError", staging |-> stg]
         ELSE [raised |-> "none", staging |-> [stg EXCEPT ![rel] = source]]
    ELSE IF stg[rel].kind = "dir"
    \* shutil.copy2 onto an existing directory copies the file into it
    THEN [raised |-> "none",
          staging |-> [stg EXCEPT ![rel] = Dir(stg[rel].data \cup source.data)]]
    ELSE [raised |-> "none", staging |-> [stg EXCEPT ![rel] = source]]

ClearFaults == {"none", "remove", "makedirs"}

\* A mutant of clear_staging_area: with a path, the whole area is removed.
clear_staging_area_ClearsAll(stg, rts, relative_path, fault) ==
    IF ~rts.staging
    THEN IF relative_path # None
         THEN [raised |-> "none", staging |-> stg, roots |-> rts]
         ELSE [raised |-> "FileNotFoundError", staging |-> stg, roots |-> rts]
    ELSE IF fault = "remove"
    THEN [raised |-> "OSError", staging |-> stg, roots |-> rts]
    ELSE IF fault = "makedirs"
    THEN [raised |-> "OSError", staging |-> [q \in DOMAIN stg |-> Absent],
          roots |-> [rts EXCEPT !.staging = FALSE]]
    ELSE [raised |-> "none", staging |-> [q \in DOMAIN stg |-> Absent], roots |-> rts]

\* A mutant of clear_staging_area: the whole area is removed and the root is
\* not made again.
clear_staging_area_NoRecreate(stg, rts, relative_path, fault) ==
    IF relative_path # None
    THEN IF ~rts.staging \/ stg[relative_path].kind = "absent"
         THEN [raised |-> "none", staging |-> stg, roots |-> rts]
         ELSE IF fault = "remove"
         THEN [raised |-> "OSError", staging |-> stg, roots |-> rts]
         ELSE [raised |-> "none", staging |-> [stg EXCEPT ![relative_path] = Absent],
               roots |-> rts]
    ELSE IF ~rts.staging
    THEN [raised |-> "FileNotFoundError", staging |-> stg, roots |-> rts]
    ELSE IF fault = "remove"
    THEN [raised |-> "OSError", staging |-> stg, roots |-> rts]
    ELSE [raised |-> "none", staging |-> [q \in DOMAIN stg |-> Absent],
          roots |-> [rts EXCEPT !.staging = FALSE]]

\* clear_staging_area(relative_path), relative_path None for the whole area,
\* on the staging area stg with the roots rts; fault is the step an I/O error
\* hits.  The errors of rmtree, os.remove and makedirs are not wrapped.
clear_staging_area(stg, rts, relative_path, fault) ==
    IF relative_path # None
    THEN IF ~rts.staging \/ stg[relative_path].kind = "absent"
         THEN [raised |-> "none", staging |-> stg, roots |-> rts]
         ELSE IF fault = "remove"
         THEN [raised |-> "OSError", staging |-> stg, roots |-> rts]
         ELSE [raised |-> "none", staging |-> [stg EXCEPT ![relative_path] = Absent],
               roots |-> rts]
    ELSE IF ~rts.staging
    \* shutil.rmtree of a directory that is not there
    THEN [raised |-> "FileNotFoundError", staging |-> stg, roots |-> rts]
    ELSE IF fault = "remove"
    THEN [raised |-> "OSError", staging |-> stg, roots |-> rts]
    ELSE IF fault = "makedirs"
    THEN [raised |-> "OSError", staging |-> [q \in DOMAIN stg |-> Absent],
          roots |-> [rts EXCEPT !.staging = FALSE]]
    ELSE [raised |-> "none", staging |-> [q \in DOMAIN stg |-> Absent], roots |-> rts]

\* The name of a backup: the sanitized path and the timestamp.
BackupName(rel, timestamp) == <<Sanitize(rel), timestamp>>

\* Mutant: a path that is not in the live codebase is an error of the backup.
backup_module_or_file_RaisesOnMissing(lv, bk, rel, timestamp, fault) ==
    LET source == lv[rel]
        backup_name == BackupName(rel, timestamp)
    IN  IF ~LiveExists(lv, rel) \/ fault
           \/ (source.kind = "dir" /\ backup_name \in DOMAIN bk)
        THEN [raised |-> "FileOperationError", backups |-> bk, made |-> FALSE]
        ELSE IF backup_name \in DOMAIN bk /\ bk[backup_name].kind = "dir"
        THEN [raised |-> "none",
              backups |-> [bk EXCEPT ![backup_name] = Dir(@.data \cup source.data)],
              made |-> TRUE]
        ELSE [raised |-> "none", backups |-> (backup_name :> source) @@ bk,
              made |-> TRUE]

\* backup_module_or_file(relative_path) at the time `timestamp`; made |-> TRUE
\* when a path is returned, FALSE when None is.
backup_module_or_file(lv, bk, rel, timestamp, fault) ==
    LET source == lv[rel]
        backup_name == BackupName(rel, timestamp)
    IN  IF ~LiveExists(lv, rel)
        THEN [raised |-> "none", backups |-> bk, made |-> FALSE]
        ELSE IF fault
        THEN [raised |-> "FileOperationError", backups |-> bk, made |-> FALSE]
        ELSE IF source.kind = "dir"
        THEN IF backup_name \in DOMAIN bk
             \* shutil.copytree onto an existing name raises FileExistsError
             THEN [raised |-> "FileOperationError", backups |-> bk, made |-> FALSE]
             ELSE [raised |-> "none", backups |-> (backup_name :> source) @@ bk,
                   made |-> TRUE]
        ELSE IF backup_name \in DOMAIN bk /\ bk[backup_name].kind = "dir"
        THEN [raised |-> "none",
              backups |-> [bk EXCEPT ![backup_name] = Dir(@.data \cup source.data)],
              made |-> TRUE]
        \* shutil.copy2 creates the file, or overwrites the file of that name
        ELSE [raised |-> "none", backups |-> (backup_name :> source) @@ bk,
              made |-> TRUE]

ApplyFaults == {"none", "makedirs", "remove", "copy"}

\* Mutant: the pre-existing artifact at the target is not removed before the
\* copy: a file is copied into a directory that is there, and the copy of a
\* directory onto anything that is there fails.
apply_staged_update_NoRemove(stg, lv, rel, fault) ==
    LET staged == stg[rel]
        parent == Dirname(rel)
        made == IF lv[parent].kind = "absent"
                THEN [lv EXCEPT ![parent] = Dir({})]
                ELSE lv
    IN  IF staged.kind = "absent"
        THEN [raised |-> "FileNotFoundError", live |-> lv]
        ELSE IF fault = "makedirs" \/ lv[parent].kind = "file"
        THEN [raised |-> "FileOperationError", live |-> lv]
        ELSE IF fault = "copy" \/ (staged.kind = "dir" /\ made[rel].kind # "absent")
        THEN [raised |-> "FileOperationError", live |-> made]
        ELSE IF made[rel].kind = "dir"
        THEN [raised |-> "none",
              live |-> [made EXCEPT ![rel] = Dir(@.data \cup staged.data)]]
        ELSE [raised |-> "none", live |-> [made EXCEPT ![rel] = staged]]

\* apply_staged_update(relative_staged_path); fault is the step an I/O error
\* hits: creating the parent, removing the old artifact, or the copy.
apply_staged_update(stg, lv, rel, fault) ==
    LET staged == stg[rel]
        parent == Dirname(rel)
        made == IF lv[parent].kind = "absent"
                THEN [lv EXCEPT ![parent] = Dir({})]
                ELSE lv
        removed == [made EXCEPT ![rel] = Absent]
    IN  IF staged.kind = "absent"
        THEN [raised |-> "FileNotFoundError", live |-> lv]
        ELSE IF fault = "makedirs" \/ lv[parent].kind = "file"
        THEN [raised |-> "FileOperationError", live |-> lv]
        ELSE IF fault = "remove" /\ made[rel].kind # "absent"
        THEN [raised |-> "FileOperationError", live |-> made]
        ELSE IF fault = "copy"
        THEN [raised |-> "FileOperationError", live |-> removed]
        ELSE [raised |-> "none", live |-> [removed EXCEPT ![rel] = staged]]

\* ------------------------------------------------- text-generation service

\* What GeminiServiceConnector.execute does: it raises, or returns
\* {"success": False, "error", "details"}, or returns the generated text.
Response(kind, exception, error, details, text) ==
    [kind |-> kind, exception |-> exception, error |-> error,
     details |-> details, generated_text |-> text]

LLMExceptions == {"AuthenticationError", "ConnectionError", "ServiceSpecificError"}

LLMErrors ==
    {<<"GeminiLLMService: API endpoint is a placeholder.", "">>,
     <<"Gemini API error (500)", "backend">>}

\* The generated bundles.  A section is a body between its two markers, with
\* both markers, one or none present, or with the two swapped.  A bundle is a
\* main section and a test section of which one at least is a well-formed
\* pair around code, in that order; or two marker pairs around any bodies, the
\* test section first; or two bodies without any marker.
Bodies == {<<" ">>, <<"a">>, <<" ", "b">>, <<"x">>}
CodeBodies == {<<"a">>, <<" ", "b">>}
Shapes == {"pair", "begin_only", "end_only", "none", "swapped"}

Section(begin, end, body, shape) ==
    CASE shape = "pair" -> begin \o body \o end
      [] shape = "begin_only" -> begin \o body
      [] shape = "end_only" -> body \o end
      [] shape = "none" -> body
      [] shape = "swapped" -> end \o body \o begin

MainSections(bodies, shapes) ==
    {Section(main_code_marker, end_main_code_marker, b, s) : b \in bodies, s \in shapes}
TestSections(bodies, shapes) ==
    {Section(test_code_marker, end_test_code_marker, b, s) : b \in bodies, s \in shapes}

Bundles ==
    {m \o t : m \in MainSections(Bodies, Shapes), t \in TestSections(CodeBodies, {"pair"})}
        \cup {m \o t : m \in MainSections(CodeBodies, {"pair"}),
                       t \in TestSections(Bodies, Shapes)}
        \cup {t \o m : m \in MainSections(Bodies, {"pair"}),
                       t \in TestSections(Bodies, {"pair"})}
        \cup {m \o t : m \in MainSections(Bodies, {"none"}),
                       t \in TestSections(Bodies, {"none"})}

LLMResponses ==
    {Response("raise", e, "", "", None) : e \in LLMExceptions}
        \cup {Response("failure", "", e[1], e[2], None) : e \in LLMErrors}
        \cup {Response("success", "", "", "", t) : t \in Bundles \cup {<<>>, None}}

\* ------------------------------------------------------------------- state

VARIABLES
    live,               \* base_code_dir: LivePaths -> what is there
    staging,            \* staging_dir: StagePaths -> what is staged
    backups,            \* backup_dir: backup name -> what was backed up
    pc,                 \* where process_command stands
    runs,               \* commands received so far
    command_struct,     \* the command being processed
    history,            \* its command_log row: status, error_message, result_summary
    feedback,           \* the last report of FeedbackManager to the user
    generated_code,     \* the generated bundle, until it is extracted
    code_to_stage,      \* the extracted main code
    test_code_to_stage, \* the extracted test code
    exc,                \* the exception being propagated to a handler
    reprompts,          \* invalid answers at the current prompt
    obs,                \* the run as observed: the trees when it started, the
                        \* phases it entered, the operator's answer, the trees
                        \* at the moment it failed
    call,               \* the last call made on the AIUpdater directly
    xpc,                \* where execute_python_snippet stands
    tmp_script,         \* whether the file at tmp_script_path exists
    process,            \* the child process and what it has written
    result,             \* what execute_python_snippet returned
    roots,              \* whether staging_dir and backup_dir exist
    disk,               \* the file system by absolute path: path -> what is there
    tasks,              \* the coroutines on the event loop: task -> its state
    running             \* the task the event loop's thread is running, or 0

executor_vars == <<xpc, tmp_script, process, result>>
loop_vars == <<tasks, running>>

vars ==
    <<live, staging, backups, pc, runs, command_struct, history, feedback,
      generated_code, code_to_stage, test_code_to_stage, exc, reprompts, obs,
      call, roots, disk, executor_vars, loop_vars>>

NoResponse == Response("none", "", "", "", None)
NoException == <<>>
NoCommand == [authenticated |-> FALSE, task_description |-> FALSE]
NoRow == [status |-> "none", error_message |-> <<>>, result_summary |-> <<>>]
NoFeedback == [level |-> "none", message |-> ""]
NoSnapshot ==
    [taken |-> FALSE, live |-> <<>>, staging |-> <<>>, backups |-> <<>>, trace |-> <<>>]

\* No call has been made on the AIUpdater; name is the backup name computed,
\* source what is at the source path of a staging call, roots what roots
\* existed when the call started.
NoCall ==
    [op |-> "none", rel |-> <<>>, source |-> <<>>, raised |-> "none", made |-> FALSE,
     name |-> <<>>, before |-> NoSnapshot, roots |-> <<>>]

\* The file system is not looked at by absolute path.
NoDisk == <<>>

\* The coroutines of process_command scheduled on the event loop.
Tasks == {1, 2}

\* A task that has not been created; outcome is what the process it waits for
\* ended with, result what the coroutine returned or reported.
NoTask ==
    [command |-> "none", pc |-> "none", outcome |-> [kind |-> "none"],
     result |-> [kind |-> "none"]]

\* No child process; returncode is None until the child has terminated.
NoProcess == [state |-> "none", returncode |-> None, stdout |-> <<>>, stderr |-> <<>>]

\* execute_python_snippet has not returned.
NoResult ==
    [returned |-> FALSE, success |-> FALSE, stdout |-> <<>>, stderr |-> <<>>,
     return_code |-> None, error |-> None]

\* The trees, and the phases entered so far.
Snapshot(lv, stg, bk, trace) ==
    [taken |-> TRUE, live |-> lv, staging |-> stg, backups |-> bk, trace |-> trace]

\* The live tree the program starts on: the target is absent (with or without
\* its parent directory), a file or a directory.
InitialLive ==
    {[p \in LivePaths |-> Absent]}
        \cup {[p \in LivePaths |->
                 IF p = Dirname(relative_target_path) THEN Dir({})
                 ELSE IF p = relative_target_path THEN t
                 ELSE Absent] : t \in {Absent, File(<<"o">>), Dir({<<"o">>})}}

Init ==
    /\ live \in InitialLive
    /\ staging = [p \in StagePaths |-> Absent]
    /\ backups = <<>>
    /\ pc = "idle"
    /\ runs = 0
    /\ command_struct = NoCommand
    /\ history = NoRow
    /\ feedback = NoFeedback
    /\ generated_code = None
    /\ code_to_stage = None
    /\ test_code_to_stage = None
    /\ exc = NoException
    /\ reprompts = 0
    /\ obs = [start |-> NoSnapshot, trace |-> <<>>, answer |-> "none",
              response |-> NoResponse, failed |-> NoSnapshot]
    /\ call = NoCall
    /\ xpc = "idle"
    /\ tmp_script = FALSE
    /\ process = NoProcess
    /\ result = NoResult
    /\ roots = [staging |-> TRUE, backup |-> TRUE]
    /\ disk = NoDisk
    /\ tasks = [t \in Tasks |-> NoTask]
    /\ running = 0

\* ------------------------------------------------------- FeedbackManager

\* CommandHistoryLogger.update_command_status: a None argument keeps the column.
update_command_status(row, status, error_message, result_summary) ==
    [status |-> status,
     error_message |-> IF error_message # None THEN error_message ELSE row.error_message,
     result_summary |-> IF result_summary # None THEN result_summary ELSE row.result_summary]

\* report_failure(command_id, message, error_message=...)
report_failure(message, error_message) ==
    /\ feedback' = [level |-> "ERROR", message |-> message]
    /\ history' = update_command_status(history, "failure",
                      IF Falsy(error_message) THEN <<message>> ELSE error_message, None)

\* report_success(command_id, message, result_summary=...)
report_success(message, result_summary) ==
    /\ feedback' = [level |-> "SUCCESS", message |-> message]
    /\ history' = update_command_status(history, "success", None,
                      IF Falsy(result_summary) THEN <<message>> ELSE result_summary)

\* The run enters a phase.
Enter(phase) == [obs EXCEPT !.trace = Append(@, phase)]

\* The run fails with the trees as they are after this step.
Failing(o, lv, stg, bk) == [o EXCEPT !.failed = Snapshot(lv, stg, bk, o.trace)]

\* ------------------------------------------------------- process_command

files == <<live, staging, backups>>
extracted == <<code_to_stage, test_code_to_stage>>

\* chat_loop hands a propose_self_update command to process_command, which
\* logs its reception.
ReceiveCommand ==
    /\ pc = "idle"
    /\ runs < MaxRuns
    /\ \E authenticated \in BOOLEAN, task_description \in BOOLEAN :
          command_struct' = [authenticated |-> authenticated,
                             task_description |-> task_description]
    /\ runs' = runs + 1
    /\ history' = [status |-> "received", error_message |-> <<>>, result_summary |-> <<>>]
    /\ feedback' = NoFeedback
    /\ generated_code' = None
    /\ code_to_stage' = None
    /\ test_code_to_stage' = None
    /\ exc' = NoException
    /\ reprompts' = 0
    /\ obs' = [start |-> Snapshot(live, staging, backups, <<>>), trace |-> <<>>,
               answer |-> "none", response |-> NoResponse, failed |-> NoSnapshot]
    /\ pc' = "authenticate"
    /\ UNCHANGED files
    /\ UNCHANGED <<call, roots, disk, executor_vars, loop_vars>>

\* A mutant of Authenticate: a failed authentication is logged, and the
\* command is dispatched all the same.
Authenticate_LogsOnly ==
    /\ pc = "authenticate"
    /\ IF command_struct.authenticated
       THEN history' = update_command_status(history, "processing_authenticated", None, None)
       ELSE history' = update_command_status(history, "failure",
                           <<"Authentication failed. Invalid API key.">>, None)
    /\ pc' = "dispatch"
    /\ UNCHANGED <<files, runs, command_struct, feedback, generated_code,
                   extracted, exc, reprompts, obs>>
    /\ UNCHANGED <<call, roots, disk, executor_vars, loop_vars>>

\* auth_mgr.is_authenticated(api_key)
Authenticate ==
    /\ pc = "authenticate"
    /\ IF command_struct.authenticated
       THEN /\ history' = update_command_status(history, "processing_authenticated", None, None)
            /\ pc' = "dispatch"
       ELSE /\ history' = update_command_status(history, "failure",
                              <<"Authentication failed. Invalid API key.">>, None)
            /\ pc' = "done"
    /\ UNCHANGED <<files, runs, command_struct, feedback, generated_code,
                   extracted, exc, reprompts, obs>>
    /\ UNCHANGED <<call, roots, disk, executor_vars, loop_vars>>

\* The propose_self_update branch up to the generation call.
Dispatch ==
    /\ pc = "dispatch"
    /\ IF command_struct.task_description
       THEN /\ pc' = "generate"
            /\ UNCHANGED <<exc, obs>>
       ELSE /\ exc' = <<"Missing 'task_description' for 'propose_self_update'.">>
            /\ obs' = Failing(obs, live, staging, backups)
            /\ pc' = "except_outer"
    /\ UNCHANGED <<files, runs, command_struct, history, feedback, generated_code, extracted, reprompts>>
    /\ UNCHANGED <<call, roots, disk, executor_vars, loop_vars>>

\* Mutant: the collaborator's error is dropped for a fixed message.
full_error_msg_Generic(llm_response) == <<"LLM task failed for unknown reason.">>

\* f"{error_msg}{(': ' + str(details)) if details else ''}"
full_error_msg(llm_response) ==
    IF llm_response.details # ""
    THEN <<llm_response.error, ": ", llm_response.details>>
    ELSE <<llm_response.error>>

\* The outcome of the generation call as the run observes it: the response
\* without its text, of kind "raise", "failure", "empty" or "text".
Observed(response) ==
    [response EXCEPT
        !.kind = IF response.kind # "success" THEN response.kind
                 ELSE IF Falsy(response.generated_text) THEN "empty"
                 ELSE "text",
        !.generated_text = None]

\* await gemini_llm_service.execute(...) and the check of what it returned.
Generate ==
    /\ pc = "generate"
    /\ \E llm_response \in LLMResponses :
          LET entered == [Enter("generate") EXCEPT !.response = Observed(llm_response)]
          IN  CASE llm_response.kind = "raise" ->
                     /\ exc' = <<llm_response.exception>>
                     /\ obs' = Failing(entered, live, staging, backups)
                     /\ pc' = "except_outer"
                     /\ UNCHANGED <<history, feedback, generated_code>>
                [] llm_response.kind = "failure" ->
                     /\ report_failure("Self-update code generation failed (LLM error).",
                                       full_error_msg(llm_response))
                     /\ obs' = Failing(entered, live, staging, backups)
                     /\ pc' = "done"
                     /\ UNCHANGED <<exc, generated_code>>
                [] llm_response.kind = "success" /\ Falsy(llm_response.generated_text) ->
                     /\ report_failure("Self-update code generation failed.",
                                       <<"LLM generated an empty response.">>)
                     /\ obs' = Failing(entered, live, staging, backups)
                     /\ pc' = "done"
                     /\ UNCHANGED <<exc, generated_code>>
                [] OTHER ->
                     /\ generated_code' = llm_response.generated_text
                     /\ obs' = entered
                     /\ pc' = "extract"
                     /\ UNCHANGED <<exc, history, feedback>>
    /\ UNCHANGED <<files, runs, command_struct, extracted, reprompts>>
    /\ UNCHANGED <<call, roots, disk, executor_vars, loop_vars>>

\* code_to_stage = extract_code_between_markers(generated_code, main_code_marker,
\* end_main_code_marker), tabulated over the texts a generation can return.
MainCodeOf ==
    [text \in Bundles |->
        extract_code_between_markers(text, main_code_marker, end_main_code_marker)]

\* test_code_to_stage = extract_code_between_markers(generated_code,
\* test_code_marker, end_test_code_marker), tabulated in the same way.
TestCodeOf ==
    [text \in Bundles |->
        extract_code_between_markers(text, test_code_marker, end_test_code_marker)]

\* Mutant: missing test code is only a warning, the run goes on.
Extract_TestsOptional ==
    /\ pc = "extract"
    /\ LET main == MainCodeOf[generated_code]
           test == TestCodeOf[generated_code]
           entered == Enter("extract")
       IN  /\ code_to_stage' = main
           /\ test_code_to_stage' = test
           /\ IF Falsy(main)
              THEN /\ report_failure("Self-update code extraction failed.",
                                     <<"Could not extract main code using markers">>)
                   /\ obs' = Failing(entered, live, staging, backups)
                   /\ pc' = "done"
              ELSE /\ obs' = entered
                   /\ pc' = "validate_main"
                   /\ UNCHANGED <<history, feedback>>
    /\ generated_code' = None
    /\ UNCHANGED <<files, runs, command_struct, exc, reprompts>>
    /\ UNCHANGED <<call, roots, disk, executor_vars, loop_vars>>

\* Mutant: the results are compared with None, so an empty text is code.
Extract_EmptyIsCode ==
    /\ pc = "extract"
    /\ LET main == MainCodeOf[generated_code]
           test == TestCodeOf[generated_code]
           entered == Enter("extract")
       IN  /\ code_to_stage' = main
           /\ test_code_to_stage' = test
           /\ IF main = None
              THEN /\ report_failure("Self-update code extraction failed.",
                                     <<"Could not extract main code using markers">>)
                   /\ obs' = Failing(entered, live, staging, backups)
                   /\ pc' = "done"
              ELSE IF test = None
              THEN /\ report_failure("Self-update test code extraction failed.",
                                     <<"Could not extract test code using markers">>)
                   /\ obs' = Failing(entered, live, staging, backups)
                   /\ pc' = "done"
              ELSE /\ obs' = entered
                   /\ pc' = "validate_main"
                   /\ UNCHANGED <<history, feedback>>
    /\ generated_code' = None
    /\ UNCHANGED <<files, runs, command_struct, exc, reprompts>>
    /\ UNCHANGED <<call, roots, disk, executor_vars, loop_vars>>

\* The two extract_code_between_markers calls and the checks of their results.
Extract ==
    /\ pc = "extract"
    /\ LET main == MainCodeOf[generated_code]
           test == TestCodeOf[generated_code]
           entered == Enter("extract")
       IN  /\ code_to_stage' = main
           /\ test_code_to_stage' = test
           /\ IF Falsy(main)
              THEN /\ report_failure("Self-update code extraction failed.",
                                     <<"Could not extract main code using markers">>)
                   /\ obs' = Failing(entered, live, staging, backups)
                   /\ pc' = "done"
              ELSE IF Falsy(test)
              THEN /\ report_failure("Self-update test code extraction failed.",
                                     <<"Could not extract test code using markers">>)
                   /\ obs' = Failing(entered, live, staging, backups)
                   /\ pc' = "done"
              ELSE /\ obs' = entered
                   /\ pc' = "validate_main"
                   /\ UNCHANGED <<history, feedback>>
    /\ generated_code' = None
    /\ UNCHANGED <<files, runs, command_struct, exc, reprompts>>
    /\ UNCHANGED <<call, roots, disk, executor_vars, loop_vars>>

\* Mutant: the return after the failed validation of the main code is missing.
ValidateMain_NoReturn ==
    /\ pc = "validate_main"
    /\ IF ast_parse(code_to_stage)
       THEN /\ obs' = Enter("validate_main")
            /\ UNCHANGED <<history, feedback>>
       ELSE /\ report_failure("Self-update main code validation failed.", <<"SyntaxError">>)
            /\ obs' = Failing(Enter("validate_main"), live, staging, backups)
    /\ pc' = "validate_test"
    /\ UNCHANGED <<files, runs, command_struct, generated_code, extracted, exc, reprompts>>
    /\ UNCHANGED <<call, roots, disk, executor_vars, loop_vars>>

\* ast.parse(code_to_stage)
ValidateMain ==
    /\ pc = "validate_main"
    /\ IF ast_parse(code_to_stage)
       THEN /\ obs' = Enter("validate_main")
            /\ pc' = "validate_test"
            /\ UNCHANGED <<history, feedback>>
       ELSE /\ report_failure("Self-update main code validation failed.", <<"SyntaxError">>)
            /\ obs' = Failing(Enter("validate_main"), live, staging, backups)
            /\ pc' = "done"
    /\ UNCHANGED <<files, runs, command_struct, generated_code, extracted,
                   exc, reprompts>>
    /\ UNCHANGED <<call, roots, disk, executor_vars, loop_vars>>

\* Mutant: the return after the failed validation of the test code is missing.
ValidateTest_NoReturn ==
    /\ pc = "validate_test"
    /\ IF ast_parse(test_code_to_stage)
       THEN /\ obs' = Enter("validate_test")
            /\ UNCHANGED <<history, feedback>>
       ELSE /\ report_failure("Self-update test code validation failed.", <<"SyntaxError">>)
            /\ obs' = Failing(Enter("validate_test"), live, staging, backups)
    /\ pc' = "stage_main"
    /\ UNCHANGED <<files, runs, command_struct, generated_code, extracted, exc, reprompts>>
    /\ UNCHANGED <<call, roots, disk, executor_vars, loop_vars>>

\* ast.parse(test_code_to_stage)
ValidateTest ==
    /\ pc = "validate_test"
    /\ IF ast_parse(test_code_to_stage)
       THEN /\ obs' = Enter("validate_test")
            /\ pc' = "stage_main"
            /\ UNCHANGED <<history, feedback>>
       ELSE /\ report_failure("Self-update test code validation failed.", <<"SyntaxError">>)
            /\ obs' = Failing(Enter("validate_test"), live, staging, backups)
            /\ pc' = "done"
    /\ UNCHANGED <<files, runs, command_struct, generated_code, extracted,
                   exc, reprompts>>
    /\ UNCHANGED <<call, roots, disk, executor_vars, loop_vars>>

StageFaults == {"none", "tempfile", "copy"}

\* What one staging block does: it writes the code to a temporary file and
\* stages that file at rel.  fault "tempfile" is an error writing the temporary
\* file (stage_code_from_source is not reached), "copy" one inside the copy.
StageFromTempFile(stg, code, rel, fault) ==
    IF fault = "tempfile"
    THEN [raised |-> "OSError", staging |-> stg]
    ELSE stage_code_from_source(stg, File(code), rel, fault = "copy")

\* Mutant: the test code is written to the temporary file of the main code.
StageMain_StagesTestCode ==
    /\ pc = "stage_main"
    /\ \E fault \in StageFaults :
          LET r == StageFromTempFile(staging, test_code_to_stage, relative_target_path, fault)
          IN  /\ staging' = r.staging
              /\ IF r.raised = "none"
                 THEN /\ obs' = Enter("stage_main")
                      /\ pc' = "stage_test"
                      /\ UNCHANGED exc
                 ELSE /\ exc' = <<r.raised>>
                      /\ obs' = Failing(Enter("stage_main"), live, r.staging, backups)
                      /\ pc' = "except_stage"
    /\ UNCHANGED <<live, backups, runs, command_struct, history, feedback, generated_code, extracted, reprompts>>
    /\ UNCHANGED <<call, roots, disk, executor_vars, loop_vars>>

\* Stage main code.
StageMain ==
    /\ pc = "stage_main"
    /\ \E fault \in StageFaults :
          LET r == StageFromTempFile(staging, code_to_stage, relative_target_path, fault)
          IN  /\ staging' = r.staging
              /\ IF r.raised = "none"
                 THEN /\ obs' = Enter("stage_main")
                      /\ pc' = "stage_test"
                      /\ UNCHANGED exc
                 ELSE /\ exc' = <<r.raised>>
                      /\ obs' = Failing(Enter("stage_main"), live, r.staging, backups)
                      /\ pc' = "except_stage"
    /\ UNCHANGED <<live, backups, runs, command_struct, history, feedback, generated_code, extracted, reprompts>>
    /\ UNCHANGED <<call, roots, disk, executor_vars, loop_vars>>

\* Mutant: an error staging the test code is logged and the run goes on to
\* the confirmation.
StageTest_IgnoresError ==
    /\ pc = "stage_test"
    /\ \E fault \in StageFaults :
          LET r == StageFromTempFile(staging, test_code_to_stage,
                                     relative_test_target_path, fault)
          IN  /\ staging' = r.staging
              /\ obs' = IF r.raised = "none" THEN Enter("stage_test")
                        ELSE Failing(Enter("stage_test"), live, r.staging, backups)
    /\ history' = update_command_status(history, "processing_staged_for_test", None,
                      <<"Code and tests staged for automated testing.">>)
    /\ pc' = "confirm"
    /\ UNCHANGED <<live, backups, runs, command_struct, feedback, generated_code,
                   extracted, exc, reprompts>>
    /\ UNCHANGED <<call, roots, disk, executor_vars, loop_vars>>

\* Stage test code, and log that both are staged.  (The automated test
\* execution that would follow is skipped by process_command.)
StageTest ==
    /\ pc = "stage_test"
    /\ \E fault \in StageFaults :
          LET r == StageFromTempFile(staging, test_code_to_stage,
                                     relative_test_target_path, fault)
          IN  /\ staging' = r.staging
              /\ IF r.raised = "none"
                 THEN /\ history' = update_command_status(history,
                                        "processing_staged_for_test", None,
                                        <<"Code and tests staged for automated testing.">>)
                      /\ obs' = Enter("stage_test")
                      /\ pc' = "confirm"
                      /\ UNCHANGED exc
                 ELSE /\ exc' = <<r.raised>>
                      /\ obs' = Failing(Enter("stage_test"), live, r.staging, backups)
                      /\ pc' = "except_stage"
                      /\ UNCHANGED history
    /\ UNCHANGED <<live, backups, runs, command_struct, feedback, generated_code, extracted, reprompts>>
    /\ UNCHANGED <<call, roots, disk, executor_vars, loop_vars>>

\* feedback_mgr.request_confirmation(confirmation_prompt) is called.
RequestConfirmation ==
    /\ pc = "confirm"
    /\ feedback' = [level |-> "CONFIRMATION_REQUEST",
                    message |-> "Do you want to apply this update now?"]
    /\ obs' = Enter("confirm")
    /\ pc' = "prompt"
    /\ UNCHANGED <<files, runs, command_struct, history, generated_code,
                   extracted, exc, reprompts>>
    /\ UNCHANGED <<call, roots, disk, executor_vars, loop_vars>>

\* Mutant: the answer is not looked at, the update is applied on "no" too.
AnswerYesNo_IgnoresNo ==
    /\ pc = "prompt"
    /\ \E response \in {"yes", "no"} :
          /\ feedback' = [level |-> "INFO", message |-> "User confirmed."]
          /\ obs' = [obs EXCEPT !.answer = response]
          /\ pc' = "backup"
    /\ UNCHANGED <<files, runs, command_struct, history, generated_code, extracted,
                   exc, reprompts>>
    /\ UNCHANGED <<call, roots, disk, executor_vars, loop_vars>>

\* Mutant: a cancelled update is cleaned out of the staging area.
AnswerYesNo_CancelClears ==
    /\ pc = "prompt"
    /\ \E response \in {"yes", "no"} :
          IF response = "yes"
          THEN /\ feedback' = [level |-> "INFO", message |-> "User confirmed."]
               /\ obs' = [obs EXCEPT !.answer = response]
               /\ pc' = "backup"
               /\ UNCHANGED <<history, staging>>
          ELSE /\ report_failure("Self-update cancelled by user.", <<"User cancellation">>)
               /\ staging' = [p \in StagePaths |-> Absent]
               /\ obs' = Failing([obs EXCEPT !.answer = response], live, staging, backups)
               /\ pc' = "done"
    /\ UNCHANGED <<live, backups, runs, command_struct, generated_code, extracted,
                   exc, reprompts>>
    /\ UNCHANGED <<call, roots, disk, executor_vars, loop_vars>>

\* The operator answers "yes" or "no".
AnswerYesNo ==
    /\ pc = "prompt"
    /\ \E response \in {"yes", "no"} :
          IF response = "yes"
          THEN /\ feedback' = [level |-> "INFO", message |-> "User confirmed."]
               /\ obs' = [obs EXCEPT !.answer = response]
               /\ pc' = "backup"
               /\ UNCHANGED history
          ELSE /\ report_failure("Self-update cancelled by user.", <<"User cancellation">>)
               /\ obs' = Failing([obs EXCEPT !.answer = response], live, staging, backups)
               /\ pc' = "done"
    /\ UNCHANGED <<files, runs, command_struct, generated_code, extracted,
                   exc, reprompts>>
    /\ UNCHANGED <<call, roots, disk, executor_vars, loop_vars>>

\* Any other answer: "Invalid input", and the prompt is shown again.
AnswerInvalid ==
    /\ pc = "prompt"
    /\ reprompts < MaxInvalid
    /\ reprompts' = reprompts + 1
    /\ UNCHANGED <<files, pc, runs, command_struct, history, feedback, generated_code, extracted, exc, obs>>
    /\ UNCHANGED <<call, roots, disk, executor_vars, loop_vars>>

\* The operator's input stream ends: input() raises EOFError, inside the try
\* block of the staging.
AnswerEOF ==
    /\ pc = "prompt"
    /\ exc' = <<"EOFError">>
    /\ obs' = Failing(obs, live, staging, backups)
    /\ pc' = "except_stage"
    /\ UNCHANGED <<files, runs, command_struct, history, feedback, generated_code, extracted, reprompts>>
    /\ UNCHANGED <<call, roots, disk, executor_vars, loop_vars>>

\* Mutant: an error of the backup is swallowed and the update applied.
Backup_SwallowsError ==
    /\ pc = "backup"
    /\ \E timestamp \in 1..MaxClock, fault \in BOOLEAN :
          LET r == backup_module_or_file(live, backups, relative_target_path,
                                         timestamp, fault)
          IN  /\ backups' = r.backups
              /\ obs' = IF r.raised = "none" THEN Enter("backup")
                        ELSE Failing(Enter("backup"), live, staging, r.backups)
    /\ pc' = "apply"
    /\ UNCHANGED <<live, staging, runs, command_struct, history, feedback,
                   generated_code, extracted, exc, reprompts>>
    /\ UNCHANGED <<call, roots, disk, executor_vars, loop_vars>>

\* backup_info = ai_updater.backup_module_or_file(relative_target_path)
Backup ==
    /\ pc = "backup"
    /\ \E timestamp \in 1..MaxClock, fault \in BOOLEAN :
          LET r == backup_module_or_file(live, backups, relative_target_path,
                                         timestamp, fault)
          IN  /\ backups' = r.backups
              /\ IF r.raised = "none"
                 THEN /\ obs' = Enter("backup")
                      /\ pc' = "apply"
                      /\ UNCHANGED exc
                 ELSE /\ exc' = <<r.raised>>
                      /\ obs' = Failing(Enter("backup"), live, staging, r.backups)
                      /\ pc' = "except_apply"
    /\ UNCHANGED <<live, staging, runs, command_struct, history, feedback, generated_code, extracted, reprompts>>
    /\ UNCHANGED <<call, roots, disk, executor_vars, loop_vars>>

\* Mutant: the staged tests are applied to the live codebase with the main
\* artifact.
Apply_AlsoAppliesTests ==
    /\ pc = "apply"
    /\ \E fault \in ApplyFaults :
          LET r == apply_staged_update(staging, live, relative_target_path, fault)
          IN  IF r.raised = "none"
              THEN /\ live' = [r.live EXCEPT ![relative_test_target_path] =
                                  staging[relative_test_target_path]]
                   /\ report_success("Self-update applied.",
                                     <<"Update successfully applied">>)
                   /\ obs' = Enter("apply")
                   /\ pc' = "done"
                   /\ UNCHANGED exc
              ELSE /\ live' = r.live
                   /\ exc' = <<r.raised>>
                   /\ obs' = Failing(Enter("apply"), r.live, staging, backups)
                   /\ pc' = "except_apply"
                   /\ UNCHANGED <<history, feedback>>
    /\ UNCHANGED <<staging, backups, runs, command_struct, generated_code,
                   extracted, reprompts>>
    /\ UNCHANGED <<call, roots, disk, executor_vars, loop_vars>>

\* applied_path = ai_updater.apply_staged_update(relative_target_path), and
\* the report of the success.
Apply ==
    /\ pc = "apply"
    /\ \E fault \in ApplyFaults :
          LET r == apply_staged_update(staging, live, relative_target_path, fault)
          IN  /\ live' = r.live
              /\ IF r.raised = "none"
                 THEN /\ report_success("Self-update applied.",
                                        <<"Update successfully applied">>)
                      /\ obs' = Enter("apply")
                      /\ pc' = "done"
                      /\ UNCHANGED exc
                 ELSE /\ exc' = <<r.raised>>
                      /\ obs' = Failing(Enter("apply"), r.live, staging, backups)
                      /\ pc' = "except_apply"
                      /\ UNCHANGED <<history, feedback>>
    /\ UNCHANGED <<staging, backups, runs, command_struct, generated_code,
                   extracted, reprompts>>
    /\ UNCHANGED <<call, roots, disk, executor_vars, loop_vars>>

\* Mutant: a failed run is cleaned out of the staging area.
HandlerFiles_CleansUp(lv, stg, bk) ==
    [live |-> lv, staging |-> [p \in StagePaths |-> Absent], backups |-> bk]

\* What a handler leaves of the trees: the handlers only report.
HandlerFiles(lv, stg, bk) == [live |-> lv, staging |-> stg, backups |-> bk]

SetFiles(f) ==
    /\ live' = f.live
    /\ staging' = f.staging
    /\ backups' = f.backups

\* except Exception as e_apply
HandleApplyException ==
    /\ pc = "except_apply"
    /\ report_failure("Self-update application failed.", exc)
    /\ SetFiles(HandlerFiles(live, staging, backups))
    /\ pc' = "done"
    /\ UNCHANGED <<runs, command_struct, generated_code, extracted, exc,
                   reprompts, obs>>
    /\ UNCHANGED <<call, roots, disk, executor_vars, loop_vars>>

\* except Exception as e_stage
HandleStageException ==
    /\ pc = "except_stage"
    /\ report_failure("Self-update code staging failed.", exc)
    /\ SetFiles(HandlerFiles(live, staging, backups))
    /\ pc' = "done"
    /\ UNCHANGED <<runs, command_struct, generated_code, extracted, exc,
                   reprompts, obs>>
    /\ UNCHANGED <<call, roots, disk, executor_vars, loop_vars>>

\* Mutant: the outer handler prints the error and records nothing.
HandleOuterException_NoRecord ==
    /\ pc = "except_outer"
    /\ SetFiles(HandlerFiles(live, staging, backups))
    /\ pc' = "done"
    /\ UNCHANGED <<runs, command_struct, history, feedback, generated_code, extracted,
                   exc, reprompts, obs>>
    /\ UNCHANGED <<call, roots, disk, executor_vars, loop_vars>>

\* except Exception as e, around the whole of process_command
HandleOuterException ==
    /\ pc = "except_outer"
    /\ history' = update_command_status(history, "failure", exc, None)
    /\ SetFiles(HandlerFiles(live, staging, backups))
    /\ pc' = "done"
    /\ UNCHANGED <<runs, command_struct, feedback, generated_code,
                   extracted, exc, reprompts, obs>>
    /\ UNCHANGED <<call, roots, disk, executor_vars, loop_vars>>

\* process_command returns to chat_loop.
Return ==
    /\ pc = "done"
    /\ pc' = "idle"
    /\ UNCHANGED <<files, runs, command_struct, history, feedback, generated_code, extracted, exc, reprompts, obs>>
    /\ UNCHANGED <<call, roots, disk, executor_vars, loop_vars>>

\* The steps process_command takes by itself, once the generation call has
\* answered.
RunStep ==
    \/ Authenticate
    \/ Dispatch
    \/ Generate
    \/ Extract
    \/ ValidateMain
    \/ ValidateTest
    \/ StageMain
    \/ StageTest
    \/ RequestConfirmation
    \/ Backup
    \/ Apply
    \/ HandleApplyException
    \/ HandleStageException
    \/ HandleOuterException
    \/ Return

Next ==
    \/ ReceiveCommand
    \/ RunStep
    \/ AnswerYesNo
    \/ AnswerInvalid
    \/ AnswerEOF

Spec == Init /\ [][Next]_vars

\* The code runs every statement to completion, the generation call returns
\* or raises, and the operator at the prompt ends up answering yes or no.
LiveSpec == Spec /\ WF_vars(RunStep) /\ WF_vars(AnswerYesNo)

\* ------------------------------------------------ the AIUpdater on its own

\* The operations of the AIUpdater called directly, as its __main__ example
\* calls them, on the artifact at relative_target_path.

\* What a caller stages: nothing at the source path, a file, a directory.
Sources == {Absent, File(<<"a">>), Dir({<<"a">>})}

\* The process_command of the pipeline is not running.
PipelineIdle ==
    UNCHANGED <<pc, runs, command_struct, history, feedback, generated_code,
                extracted, exc, reprompts, obs, disk, executor_vars, loop_vars>>

\* The call as made: the operation, its arguments, what it raised, and the
\* trees and roots before it.
Called(op, rel, source, raised, made, name) ==
    [op |-> op, rel |-> rel, source |-> source, raised |-> raised, made |-> made,
     name |-> name, before |-> Snapshot(live, staging, backups, <<>>), roots |-> roots]

\* updater.stage_code_from_source(source_path, rel); os.makedirs creates the
\* parents of the staged path, the staging root among them, before the copy.
CallStage ==
    /\ \E source \in Sources, rel \in StagePaths, fault \in BOOLEAN :
          LET r == stage_code_from_source(staging, source, rel, fault)
          IN  /\ staging' = r.staging
              /\ roots' = IF r.raised = "FileNotFoundError" THEN roots
                          ELSE [roots EXCEPT !.staging = TRUE]
              /\ call' = Called("stage", rel, source, r.raised, FALSE, <<>>)
    /\ UNCHANGED <<live, backups>>
    /\ PipelineIdle

\* updater.backup_module_or_file(relative_target_path); os.makedirs creates
\* the backup root before the copy.
CallBackup ==
    /\ \E timestamp \in 1..MaxClock, fault \in BOOLEAN :
          LET r == backup_module_or_file(live, backups, relative_target_path,
                                         timestamp, fault)
          IN  /\ backups' = r.backups
              /\ roots' = IF LiveExists(live, relative_target_path)
                          THEN [roots EXCEPT !.backup = TRUE]
                          ELSE roots
              /\ call' = Called("backup", relative_target_path, <<>>, r.raised, r.made,
                                BackupName(relative_target_path, timestamp))
    /\ UNCHANGED <<live, staging>>
    /\ PipelineIdle

\* A mutant of CallApply: the staged artifact is moved, not copied.
CallApply_ConsumesStaged ==
    /\ \E fault \in ApplyFaults :
          LET r == apply_staged_update(staging, live, relative_target_path, fault)
          IN  /\ live' = r.live
              /\ staging' = IF r.raised = "none"
                            THEN [staging EXCEPT ![relative_target_path] = Absent]
                            ELSE staging
              /\ call' = Called("apply", relative_target_path, <<>>, r.raised, FALSE, <<>>)
    /\ UNCHANGED <<backups, roots>>
    /\ PipelineIdle

\* updater.apply_staged_update(relative_target_path)
CallApply ==
    /\ \E fault \in ApplyFaults :
          LET r == apply_staged_update(staging, live, relative_target_path, fault)
          IN  /\ live' = r.live
              /\ call' = Called("apply", relative_target_path, <<>>, r.raised, FALSE, <<>>)
    /\ UNCHANGED <<staging, backups, roots>>
    /\ PipelineIdle

\* updater.clear_staging_area(rel), or updater.clear_staging_area()
CallClear ==
    /\ \E relative_path \in StagePaths \cup {None}, fault \in ClearFaults :
          LET r == clear_staging_area(staging, roots, relative_path, fault)
          IN  /\ staging' = r.staging
              /\ roots' = r.roots
              /\ call' = Called("clear", relative_path, <<>>, r.raised, FALSE, <<>>)
    /\ UNCHANGED <<live, backups>>
    /\ PipelineIdle

UpdaterNext ==
    \/ CallStage
    \/ CallBackup
    \/ CallApply
    \/ CallClear

UpdaterSpec == Init /\ [][UpdaterNext]_vars

\* ------------------------------------------------------------ CodeExecutor

\* The exit codes a snippet ends with, and the signals that end it from
\* outside; Popen.returncode is the exit code, or minus the signal's number.
ExitCodes == {0, 5}
Signals == {1, 9}

\* The orchestrator's pipeline and the AIUpdater are not involved.
ExecutorOnly ==
    UNCHANGED <<files, pc, runs, command_struct, history, feedback, generated_code,
                extracted, exc, reprompts, obs, call, roots, disk, loop_vars>>

\* CodeExecutionResult(success, stdout, stderr, return_code, duration, error)
CodeExecutionResult(success, stdout, stderr, return_code, error) ==
    [returned |-> TRUE, success |-> success, stdout |-> stdout, stderr |-> stderr,
     return_code |-> return_code, error |-> error]

\* The finally block: the file at tmp_script_path is removed if it exists.
RemoveTempFile == tmp_script' = FALSE

\* The with block: NamedTemporaryFile(delete=False) creates the file and the
\* snippet is written to it.  It stands before the try statement: an error of
\* the creation or of the write leaves execute_python_snippet at once.
WriteSnippet ==
    /\ xpc = "idle"
    /\ \E outcome \in {"written", "create_error", "write_error"} :
          /\ tmp_script' = (outcome # "create_error")
          /\ xpc' = IF outcome = "written" THEN "spawn" ELSE "raised"
    /\ UNCHANGED <<process, result>>
    /\ ExecutorOnly

\* A mutant of Spawn: the generic handler reports str(e) as stdout.
Spawn_ErrorTextInStdout ==
    /\ xpc = "spawn"
    /\ \E outcome \in {"started", "FileNotFoundError", "OSError"} :
          CASE outcome = "started" ->
                 /\ process' = [state |-> "running", returncode |-> None,
                                stdout |-> <<>>, stderr |-> <<>>]
                 /\ xpc' = "communicate"
                 /\ UNCHANGED <<tmp_script, result>>
            [] outcome = "FileNotFoundError" ->
                 /\ result' = CodeExecutionResult(FALSE, <<>>, <<>>, -1,
                                  <<"Python interpreter not found">>)
                 /\ RemoveTempFile
                 /\ xpc' = "returned"
                 /\ UNCHANGED process
            [] OTHER ->
                 /\ result' = CodeExecutionResult(FALSE, <<outcome>>, <<>>, -1,
                                  <<"An unexpected error occurred: ", outcome>>)
                 /\ RemoveTempFile
                 /\ xpc' = "returned"
                 /\ UNCHANGED process
    /\ ExecutorOnly

\* subprocess.Popen([python_executable, "-I", tmp_script_path], ...), with the
\* handlers of the errors it raises and the finally block after them.
Spawn ==
    /\ xpc = "spawn"
    /\ \E outcome \in {"started", "FileNotFoundError", "OSError"} :
          CASE outcome = "started" ->
                 /\ process' = [state |-> "running", returncode |-> None,
                                stdout |-> <<>>, stderr |-> <<>>]
                 /\ xpc' = "communicate"
                 /\ UNCHANGED <<tmp_script, result>>
            [] outcome = "FileNotFoundError" ->
                 /\ result' = CodeExecutionResult(FALSE, <<>>, <<>>, -1,
                                  <<"Python interpreter not found">>)
                 /\ RemoveTempFile
                 /\ xpc' = "returned"
                 /\ UNCHANGED process
            [] OTHER ->
                 /\ result' = CodeExecutionResult(FALSE, <<>>, <<outcome>>, -1,
                                  <<"An unexpected error occurred: ", outcome>>)
                 /\ RemoveTempFile
                 /\ xpc' = "returned"
                 /\ UNCHANGED process
    /\ ExecutorOnly

\* The most chunks of output the snippet writes to one of its streams.
MaxOutput == 2

\* A chunk of bytes that is no UTF-8 text, as sys.stdout.buffer.write(b'\xff').
Undecodable == "\\xff"

\* bytes.decode('utf-8') of what a pipe held succeeds (text=True, encoding='utf-8').
Decodable(output) == \A i \in 1..Len(output) : output[i] # Undecodable

\* The child writes a chunk to its stdout or to its stderr pipe.
ChildWrites ==
    /\ xpc \in {"communicate", "except_timeout"}
    /\ process.state = "running"
    /\ \/ /\ Len(process.stdout) < MaxOutput
          /\ \E chunk \in {"o", Undecodable} :
                process' = [process EXCEPT !.stdout = Append(@, chunk)]
       \/ /\ Len(process.stderr) < MaxOutput
          /\ process' = [process EXCEPT !.stderr = Append(@, "e")]
    /\ UNCHANGED <<xpc, tmp_script, result>>
    /\ ExecutorOnly

\* The child ends of its own accord: sys.exit, the end of the script (0) or
\* an uncaught exception.
ChildExits ==
    /\ xpc \in {"communicate", "except_timeout"}
    /\ process.state = "running"
    /\ \E code \in ExitCodes :
          process' = [process EXCEPT !.state = "exited", !.returncode = code]
    /\ UNCHANGED <<xpc, tmp_script, result>>
    /\ ExecutorOnly

\* The child is ended by a signal, its own or another process's.
ChildSignaled ==
    /\ xpc \in {"communicate", "except_timeout"}
    /\ process.state = "running"
    /\ \E signal \in Signals :
          process' = [process EXCEPT !.state = "signaled", !.returncode = -signal]
    /\ UNCHANGED <<xpc, tmp_script, result>>
    /\ ExecutorOnly

\* A mutant of CommunicateReturns: success whatever the return code.
CommunicateReturns_AlwaysSuccess ==
    /\ xpc = "communicate"
    /\ process.state \in {"exited", "signaled"}
    /\ Decodable(process.stdout)
    /\ result' = CodeExecutionResult(TRUE, process.stdout, process.stderr,
                                     process.returncode, None)
    /\ RemoveTempFile
    /\ xpc' = "returned"
    /\ UNCHANGED process
    /\ ExecutorOnly

\* process.communicate(input, timeout) returns once the child has ended and
\* its output is decoded: the result carries what the child wrote and its
\* return code.
CommunicateReturns ==
    /\ xpc = "communicate"
    /\ process.state \in {"exited", "signaled"}
    /\ Decodable(process.stdout)
    /\ result' = CodeExecutionResult(process.returncode = 0, process.stdout,
                                     process.stderr, process.returncode, None)
    /\ RemoveTempFile
    /\ xpc' = "returned"
    /\ UNCHANGED process
    /\ ExecutorOnly

\* The timeout expires while the child runs: communicate raises TimeoutExpired.
CommunicateTimesOut ==
    /\ xpc = "communicate"
    /\ process.state = "running"
    /\ xpc' = "except_timeout"
    /\ UNCHANGED <<tmp_script, process, result>>
    /\ ExecutorOnly

\* The TimeoutExpired handler: process.kill(), then communicate() again to
\* read and decode what the pipes hold; kill() does nothing to a child that
\* has ended.  A UnicodeDecodeError of this communicate() is raised inside
\* the handler: no other handler takes it, the finally block runs and the
\* exception leaves execute_python_snippet.
KillAndCollect ==
    /\ xpc = "except_timeout"
    /\ process' = IF process.state = "running"
                  THEN [process EXCEPT !.state = "killed", !.returncode = -9]
                  ELSE process
    /\ IF Decodable(process.stdout)
       THEN /\ result' = CodeExecutionResult(FALSE, process.stdout, process.stderr, -1,
                                             <<"Execution timed out.">>)
            /\ xpc' = "returned"
       ELSE /\ xpc' = "raised"
            /\ UNCHANGED result
    /\ RemoveTempFile
    /\ ExecutorOnly

\* communicate raises something else (input_data that is no str, a pipe
\* error, output of the ended child that is no UTF-8 text): the generic
\* handler answers with str(e) as stderr.
CommunicateRaises ==
    /\ xpc = "communicate"
    /\ \E e \in {"TypeError", "OSError", "UnicodeDecodeError"} :
          /\ e = "UnicodeDecodeError" =>
                (process.state \in {"exited", "signaled"} /\ ~Decodable(process.stdout))
          /\ result' = CodeExecutionResult(FALSE, <<>>, <<e>>, -1,
                                        <<"An unexpected error occurred: ", e>>)
    /\ RemoveTempFile
    /\ xpc' = "returned"
    /\ UNCHANGED process
    /\ ExecutorOnly

\* The caller has its result, or the exception; the next call starts afresh.
NextSnippet ==
    /\ xpc \in {"returned", "raised"}
    /\ xpc' = "idle"
    /\ tmp_script' = FALSE
    /\ process' = NoProcess
    /\ result' = NoResult
    /\ ExecutorOnly

ExecutorNext ==
    \/ WriteSnippet
    \/ Spawn
    \/ ChildWrites
    \/ ChildExits
    \/ ChildSignaled
    \/ CommunicateReturns
    \/ CommunicateTimesOut
    \/ KillAndCollect
    \/ CommunicateRaises
    \/ NextSnippet

ExecutorSpec == Init /\ [][ExecutorNext]_vars

\* -------------------------------------------------------------- event loop

\* The coroutines the loop runs: process_command for a propose_self_update
\* and for an execute_code command, and _execute_staged_tests.
Commands == {"propose_self_update", "execute_code", "_execute_staged_tests"}

\* The steps of the propose_self_update branch after the generation call, in
\* the order of the code; none of them is awaited.
UpdateSteps == <<"extract", "stage_main", "stage_test", "confirm", "backup", "apply">>

\* timeout=60 of the subprocess.run that runs pytest.
TestTimeout == 60

\* How the thread that runs subprocess.run(cmd, capture_output=True, ...)
\* ends: pytest exits (or dies by a signal), the timeout expires, or
\* subprocess.run raises something else.
TestOutcomes ==
    [kind : {"exit"}, returncode : {0, 1, 2, -9}, after : {1},
     stdout : {<<>>, <<"out">>}, stderr : {<<>>, <<"err">>}]
        \cup [kind : {"TimeoutExpired"}, returncode : {None}, after : {TestTimeout},
              stdout : {<<>>}, stderr : {<<>>}]
        \cup [kind : {"OSError"}, returncode : {None}, after : {1},
              stdout : {<<>>}, stderr : {<<>>}]

\* Only the tasks and the loop's thread are involved.
LoopOnly ==
    UNCHANGED <<files, pc, runs, command_struct, history, feedback, generated_code,
                extracted, exc, reprompts, obs, call, roots, disk, executor_vars>>

\* The return code as the f-string formats it.
ReturnCodeText(returncode) ==
    CASE returncode = 0 -> "0"
      [] returncode = 1 -> "1"
      [] returncode = 2 -> "2"
      [] returncode = -9 -> "-9"

\* test_output of _execute_staged_tests
test_output(completed) ==
    <<"Pytest STDOUT:\n">> \o completed.stdout \o <<"\n">>
        \o (IF completed.stderr # <<>>
            THEN <<"Pytest STDERR:\n">> \o completed.stderr \o <<"\n">>
            ELSE <<>>)

\* A mutant of execute_staged_tests: exit code 1 is taken for a tool error.
execute_staged_tests_OnlyZeroOrError(completed) ==
    IF completed.kind = "TimeoutExpired"
    THEN [passed |-> FALSE, output |-> <<"Pytest execution timed out.">>]
    ELSE IF completed.kind # "exit"
    THEN [passed |-> FALSE,
          output |-> <<"An unexpected error occurred while running pytest: ", completed.kind>>]
    ELSE IF completed.returncode = 0
    THEN [passed |-> TRUE, output |-> test_output(completed)]
    ELSE [passed |-> FALSE,
          output |-> <<"Pytest execution error (code ",
                       ReturnCodeText(completed.returncode), ").\n">>
                        \o test_output(completed)]

\* What _execute_staged_tests returns for the outcome of the pytest run.
execute_staged_tests(completed) ==
    IF completed.kind = "TimeoutExpired"
    THEN [passed |-> FALSE, output |-> <<"Pytest execution timed out.">>]
    ELSE IF completed.kind # "exit"
    THEN [passed |-> FALSE,
          output |-> <<"An unexpected error occurred while running pytest: ", completed.kind>>]
    ELSE IF completed.returncode = 0
    THEN [passed |-> TRUE, output |-> test_output(completed)]
    ELSE IF completed.returncode = 1
    THEN [passed |-> FALSE, output |-> test_output(completed)]
    ELSE [passed |-> FALSE,
          output |-> <<"Pytest execution error (code ",
                       ReturnCodeText(completed.returncode), ").\n">>
                        \o test_output(completed)]

\* A coroutine is created and scheduled on the loop.
CreateTask ==
    /\ \E t \in Tasks, command \in Commands :
          /\ tasks[t].pc = "none"
          /\ tasks' = [tasks EXCEPT ![t] = [NoTask EXCEPT !.command = command,
                                                           !.pc = "scheduled"]]
    /\ UNCHANGED running
    /\ LoopOnly

\* The loop's thread is free and runs a task that can go on: one just
\* scheduled, or one whose awaited call is done.
LoopRuns ==
    /\ running = 0
    /\ \E t \in Tasks :
          /\ tasks[t].pc \in {"scheduled", "generated", "thread_done"}
          /\ tasks' = [tasks EXCEPT ![t].pc =
                          CASE @ = "scheduled" -> "dispatch"
                            [] @ = "generated" -> UpdateSteps[1]
                            [] OTHER -> "collect"]
          /\ running' = t
    /\ LoopOnly

\* await self.gemini_llm_service.execute("generate_text", ...): the task is
\* suspended and the loop's thread is free.
AwaitGeneration ==
    /\ \E t \in Tasks :
          /\ running = t
          /\ tasks[t].command = "propose_self_update"
          /\ tasks[t].pc = "dispatch"
          /\ tasks' = [tasks EXCEPT ![t].pc = "awaiting_generation"]
    /\ running' = 0
    /\ LoopOnly

\* The generation service has answered: the task can go on.
GenerationReturns ==
    /\ \E t \in Tasks :
          /\ tasks[t].pc = "awaiting_generation"
          /\ tasks' = [tasks EXCEPT ![t].pc = "generated"]
    /\ UNCHANGED running
    /\ LoopOnly


\* A mutant of UpdateStep: the confirmation is awaited, so the loop's thread
\* is free while the operator thinks and the task goes on when it is free.
UpdateStep_AwaitsConfirmation ==
    /\ \E t \in Tasks, i \in 1..Len(UpdateSteps), failed \in BOOLEAN :
          /\ running \in {t, 0}
          /\ tasks[t].command = "propose_self_update"
          /\ tasks[t].pc = UpdateSteps[i]
          /\ tasks' = [tasks EXCEPT ![t].pc =
                          IF failed \/ i = Len(UpdateSteps) THEN "done"
                          ELSE UpdateSteps[i + 1]]
          /\ running' = IF failed \/ i = Len(UpdateSteps) \/ UpdateSteps[i] = "confirm"
                        THEN 0 ELSE t
    /\ LoopOnly

\* One step of the propose_self_update branch after the generation call:
\* extraction and validation, the two staging calls, the confirmation prompt,
\* the backup, the apply.  The step fails or is declined, and the coroutine
\* returns, or the next step is reached; the task keeps the loop's thread
\* until it returns.
UpdateStep ==
    /\ \E t \in Tasks, i \in 1..Len(UpdateSteps), failed \in BOOLEAN :
          /\ running = t
          /\ tasks[t].command = "propose_self_update"
          /\ tasks[t].pc = UpdateSteps[i]
          /\ tasks' = [tasks EXCEPT ![t].pc =
                          IF failed \/ i = Len(UpdateSteps) THEN "done"
                          ELSE UpdateSteps[i + 1]]
          /\ running' = IF failed \/ i = Len(UpdateSteps) THEN 0 ELSE t
    /\ LoopOnly

\* exec_result = self.code_executor.execute_python_snippet(code_to_execute):
\* a plain call, made on the loop's thread, that returns when the child has
\* ended or has been killed.
RunSnippet ==
    /\ \E t \in Tasks :
          /\ running = t
          /\ tasks[t].command = "execute_code"
          /\ tasks[t].pc = "dispatch"
          /\ tasks' = [tasks EXCEPT ![t].pc = "snippet"]
    /\ UNCHANGED running
    /\ LoopOnly

\* execute_python_snippet returns its result.
SnippetReturns ==
    /\ \E t \in Tasks, success \in BOOLEAN :
          /\ running = t
          /\ tasks[t].pc = "snippet"
          /\ tasks' = [tasks EXCEPT ![t].pc = "report",
                                    ![t].outcome = [kind |-> "CodeExecutionResult",
                                                    success |-> success]]
    /\ UNCHANGED running
    /\ LoopOnly

\* report_success or report_failure, and process_command returns.
ReportSnippet ==
    /\ \E t \in Tasks :
          /\ running = t
          /\ tasks[t].pc = "report"
          /\ tasks' = [tasks EXCEPT ![t].pc = "done", ![t].result = tasks[t].outcome]
    /\ running' = 0
    /\ LoopOnly

\* process = await asyncio.to_thread(subprocess.run, cmd, ..., timeout=60):
\* the run is handed to a worker thread and the task is suspended.
ToThread ==
    /\ \E t \in Tasks :
          /\ running = t
          /\ tasks[t].command = "_execute_staged_tests"
          /\ tasks[t].pc = "dispatch"
          /\ tasks' = [tasks EXCEPT ![t].pc = "awaiting_tests"]
    /\ running' = 0
    /\ LoopOnly

\* The worker thread's subprocess.run ends.
TestProcessEnds ==
    /\ \E t \in Tasks, completed \in TestOutcomes :
          /\ tasks[t].pc = "awaiting_tests"
          /\ tasks' = [tasks EXCEPT ![t].pc = "thread_done", ![t].outcome = completed]
    /\ UNCHANGED running
    /\ LoopOnly

\* _execute_staged_tests, resumed, returns (tests_passed, test_output).
ExecuteStagedTestsReturns ==
    /\ \E t \in Tasks :
          /\ running = t
          /\ tasks[t].pc = "collect"
          /\ tasks' = [tasks EXCEPT ![t].pc = "done",
                                    ![t].result = execute_staged_tests(tasks[t].outcome)]
    /\ running' = 0
    /\ LoopOnly

LoopNext ==
    \/ CreateTask
    \/ LoopRuns
    \/ AwaitGeneration
    \/ GenerationReturns
    \/ UpdateStep
    \/ RunSnippet
    \/ SnippetReturns
    \/ ReportSnippet
    \/ ToThread
    \/ TestProcessEnds
    \/ ExecuteStagedTestsReturns

LoopSpec == Init /\ [][LoopNext]_vars

\* ------------------------------------------- extract_code_between_markers

\* The most pieces a text handed to extract_code_between_markers is made of.
MaxPieces == 4

\* What a text is made of: the four markers, code, whitespace, code with
\* whitespace around it, and a marker's delimiter on its own.
Pieces ==
    {main_code_marker, end_main_code_marker, test_code_marker, end_test_code_marker,
     <<"a">>, <<" ">>, <<" ", "a", " ">>, <<"=">>}

RECURSIVE Join(_)
Join(pieces) == IF pieces = <<>> THEN <<>> ELSE Head(pieces) \o Join(Tail(pieces))

\* The texts of at most MaxPieces pieces.
Texts == UNION {{Join(ps) : ps \in [1..n -> Pieces]} : n \in 0..MaxPieces}

\* raw_llm_output is any text; nothing is extracted yet.
ExtractorInit ==
    /\ generated_code \in Texts
    /\ pc = "extract"
    /\ code_to_stage = None
    /\ test_code_to_stage = None
    /\ live = [p \in LivePaths |-> Absent]
    /\ staging = [p \in StagePaths |-> Absent]
    /\ backups = <<>>
    /\ runs = 0
    /\ command_struct = NoCommand
    /\ history = NoRow
    /\ feedback = NoFeedback
    /\ exc = NoException
    /\ reprompts = 0
    /\ obs = [start |-> NoSnapshot, trace |-> <<>>, answer |-> "none",
              response |-> NoResponse, failed |-> NoSnapshot]
    /\ call = NoCall
    /\ xpc = "idle"
    /\ tmp_script = FALSE
    /\ process = NoProcess
    /\ result = NoResult
    /\ roots = [staging |-> TRUE, backup |-> TRUE]
    /\ disk = NoDisk
    /\ tasks = [t \in Tasks |-> NoTask]
    /\ running = 0

\* Only the extracted codes and the position are involved.
ExtractorOnly ==
    UNCHANGED <<files, runs, command_struct, history, feedback, generated_code, exc,
                reprompts, obs, call, roots, disk, executor_vars, loop_vars>>

\* code_to_stage = extract_code_between_markers(raw_llm_output, ...)
ExtractMainCode ==
    /\ pc = "extract"
    /\ code_to_stage' = extract_code_between_markers(generated_code, main_code_marker,
                                                     end_main_code_marker)
    /\ pc' = "extract_test"
    /\ UNCHANGED test_code_to_stage
    /\ ExtractorOnly

\* test_code_to_stage = extract_code_between_markers(raw_llm_output, ...)
ExtractTestCode ==
    /\ pc = "extract_test"
    /\ test_code_to_stage' = extract_code_between_markers(generated_code, test_code_marker,
                                                          end_test_code_marker)
    /\ pc' = "extracted"
    /\ UNCHANGED code_to_stage
    /\ ExtractorOnly

ExtractorNext ==
    \/ ExtractMainCode
    \/ ExtractTestCode

ExtractorSpec == ExtractorInit /\ [][ExtractorNext]_vars

\* ------------------------------------------- the AIUpdater by absolute path

\* The operations of the AIUpdater on the file system by absolute path, for
\* relative path arguments of every form.  The roots are those the
\* orchestrator configures: the staging and the backup directory are in the
\* directory of the code.
base_code_dir == <<"/", "ai">>
staging_dir == base_code_dir \o <<"/", "staging">>
backup_dir == base_code_dir \o <<"/", "backup">>

\* The relative path arguments: a plain one, one with a '..' segment, an
\* absolute one; and two more for the backup, which differ by the separator.
RelPaths == {<<"x.py">>, <<"..", "/", "x.py">>, <<"/", "x.py">>}
BackupPaths == RelPaths \cup {<<"d", "/", "x.py">>, <<"d", "_", "x.py">>}

\* The one value datetime.now() formats to in these calls.
PathClock == 1

\* os.path.join(a, b): an absolute b replaces a.
join(a, b) == IF b # <<>> /\ Head(b) = "/" THEN b ELSE a \o <<"/">> \o b

\* The components of a path, split at the separators.
RECURSIVE Components(_)
Components(p) ==
    LET seps == {i \in 1..Len(p) : p[i] = "/"}
    IN  IF seps = {} THEN <<p>>
        ELSE LET cut == CHOOSE i \in seps : \A j \in seps : i <= j
             IN  <<SubSeq(p, 1, cut - 1)>> \o Components(SubSeq(p, cut + 1, Len(p)))

\* The path the operating system reaches, component by component: '..' goes
\* to the parent (the parent of the root is the root), '.' and an empty
\* component stay.  The root directory is <<>>.
RECURSIVE Walk(_, _)
Walk(components, at) ==
    IF components = <<>> THEN at
    ELSE LET c == Head(components)
         IN  IF c = <<>> \/ c = <<".">> THEN Walk(Tail(components), at)
             ELSE IF c = <<"..">> THEN Walk(Tail(components), Dirname(at))
             ELSE Walk(Tail(components), at \o <<"/">> \o c)

Resolve(p) == Walk(Components(p), <<>>)

\* The directories above a path.
Ancestors(p) == {SubSeq(p, 1, i - 1) : i \in {j \in 1..Len(p) : p[j] = "/"}}

\* staged_path, source_full_path and target_path_in_base_code,
\* backup_path_in_backup_dir of a relative path.
StagedPath(rel) == Resolve(join(staging_dir, rel))
TargetPath(rel) == Resolve(join(base_code_dir, rel))
BackupPath(rel, timestamp) ==
    Resolve(join(backup_dir, Sanitize(rel) \o <<".", ToString(timestamp)>>))

\* The paths of the file system that the calls can reach.
DiskPaths ==
    LET reached == {StagedPath(rel) : rel \in RelPaths}
                       \cup {TargetPath(rel) : rel \in BackupPaths}
                       \cup {BackupPath(rel, PathClock) : rel \in BackupPaths}
                       \cup {staging_dir, backup_dir}
    IN  reached \cup UNION {Ancestors(p) : p \in reached}

\* os.makedirs(p, exist_ok=True), which a file on the way blocks.
Blocked(d, p) == \E q \in Ancestors(p) \cup {p} : d[q].kind = "file"
makedirs(d, p) ==
    [q \in DOMAIN d |->
        IF q \in Ancestors(p) \cup {p} /\ d[q].kind = "absent" THEN Dir({}) ELSE d[q]]

\* shutil.rmtree(p), os.remove(p)
rmtree(d, p) == [q \in DOMAIN d |-> IF q = p \/ p \in Ancestors(q) THEN Absent ELSE d[q]]

\* The contents of the files in and below the directory p.
Below(d, p) == d[p].data \cup UNION {d[q].data : q \in {r \in DOMAIN d : p \in Ancestors(r)}}

\* shutil.copy2(source, p): onto a directory, the file is copied into it.
copy2(d, source, p) ==
    IF d[p].kind = "dir" THEN [d EXCEPT ![p] = Dir(@.data \cup source.data)]
    ELSE [d EXCEPT ![p] = source]

\* The call made and, for every backup record, the relative path it was last
\* written for.
PathCall(op, rel, origin) == [op |-> op, rel |-> rel, origin |-> origin]

NoOrigin == <<"none">>

\* The code directory with its staging and backup directories, a directory d
\* with a file, the file d_x.py, and x.py or not in the code directory and in
\* the root directory.
PathInit ==
    /\ \E inside \in {Absent, File(<<"o">>)}, outside \in {Absent, File(<<"o">>)} :
          disk = [p \in DiskPaths |->
                     CASE p \in {<<>>, base_code_dir, staging_dir, backup_dir,
                                 base_code_dir \o <<"/", "d">>} -> Dir({})
                       [] p = TargetPath(<<"x.py">>) -> inside
                       [] p = TargetPath(<<"/", "x.py">>) -> outside
                       [] p = TargetPath(<<"d", "/", "x.py">>) -> File(<<"d">>)
                       [] p = TargetPath(<<"d", "_", "x.py">>) -> File(<<"e">>)
                       [] OTHER -> Absent]
    /\ call = PathCall("none", <<>>,
                       [rel \in {BackupPath(r, PathClock) : r \in BackupPaths} |-> NoOrigin])
    /\ live = [p \in LivePaths |-> Absent]
    /\ staging = [p \in StagePaths |-> Absent]
    /\ backups = <<>>
    /\ pc = "idle"
    /\ runs = 0
    /\ command_struct = NoCommand
    /\ history = NoRow
    /\ feedback = NoFeedback
    /\ generated_code = None
    /\ code_to_stage = None
    /\ test_code_to_stage = None
    /\ exc = NoException
    /\ reprompts = 0
    /\ obs = [start |-> NoSnapshot, trace |-> <<>>, answer |-> "none",
              response |-> NoResponse, failed |-> NoSnapshot]
    /\ xpc = "idle"
    /\ tmp_script = FALSE
    /\ process = NoProcess
    /\ result = NoResult
    /\ roots = [staging |-> TRUE, backup |-> TRUE]
    /\ tasks = [t \in Tasks |-> NoTask]
    /\ running = 0

\* Only the file system by absolute path and the record of the call change.
PathOnly ==
    UNCHANGED <<files, pc, runs, command_struct, history, feedback, generated_code,
                extracted, exc, reprompts, obs, roots, executor_vars, loop_vars>>

\* stage_code_from_source(source_path, relative_target_path)
StageAt ==
    /\ \E source \in {Absent, File(<<"a">>)}, rel \in RelPaths :
          LET staged_path == StagedPath(rel)
              made == makedirs(disk, Dirname(staged_path))
          IN  IF source.kind = "absent"
              THEN /\ call' = PathCall("stage", rel, call.origin)
                   /\ UNCHANGED disk
              ELSE IF Blocked(disk, Dirname(staged_path))
              THEN /\ call' = PathCall("stage", rel, call.origin)
                   /\ UNCHANGED disk
              ELSE IF source.kind = "dir"
              THEN IF made[staged_path].kind = "file"
                   THEN /\ call' = PathCall("stage", rel, call.origin)
                        /\ disk' = made
                   ELSE /\ call' = PathCall("stage", rel, call.origin)
                        /\ disk' = [rmtree(made, staged_path) EXCEPT ![staged_path] = source]
              ELSE /\ call' = PathCall("stage", rel, call.origin)
                   /\ disk' = copy2(made, source, staged_path)
    /\ PathOnly

\* backup_module_or_file(relative_path)
BackupAt ==
    /\ \E rel \in BackupPaths, timestamp \in 1..PathClock :
          LET source_full_path == TargetPath(rel)
              backup_path_in_backup_dir == BackupPath(rel, timestamp)
              made == makedirs(disk, Dirname(backup_path_in_backup_dir))
              written == [call.origin EXCEPT ![backup_path_in_backup_dir] = rel]
          IN  IF disk[source_full_path].kind = "absent"
              THEN /\ call' = PathCall("backup", rel, call.origin)
                   /\ UNCHANGED disk
              ELSE IF Blocked(disk, Dirname(backup_path_in_backup_dir))
              THEN /\ call' = PathCall("backup", rel, call.origin)
                   /\ UNCHANGED disk
              ELSE IF disk[source_full_path].kind = "dir"
              THEN IF made[backup_path_in_backup_dir].kind # "absent"
                   THEN /\ call' = PathCall("backup", rel, call.origin)
                        /\ disk' = made
                   ELSE /\ call' = PathCall("backup", rel, written)
                        /\ disk' = [made EXCEPT ![backup_path_in_backup_dir] =
                                       Dir(Below(made, source_full_path))]
              ELSE /\ call' = PathCall("backup", rel, written)
                   /\ disk' = copy2(made, made[source_full_path], backup_path_in_backup_dir)
    /\ PathOnly

\* apply_staged_update(relative_staged_path)
ApplyAt ==
    /\ \E rel \in RelPaths :
          LET staged_item_full_path == StagedPath(rel)
              target_path_in_base_code == TargetPath(rel)
              made == makedirs(disk, Dirname(target_path_in_base_code))
              removed == rmtree(made, target_path_in_base_code)
          IN  IF disk[staged_item_full_path].kind = "absent"
              THEN /\ call' = PathCall("apply", rel, call.origin)
                   /\ UNCHANGED disk
              ELSE IF Blocked(disk, Dirname(target_path_in_base_code))
              THEN /\ call' = PathCall("apply", rel, call.origin)
                   /\ UNCHANGED disk
              \* the staged item was at or below the target that was removed
              ELSE IF removed[staged_item_full_path].kind = "absent"
              THEN /\ call' = PathCall("apply", rel, call.origin)
                   /\ disk' = removed
              ELSE IF removed[staged_item_full_path].kind = "dir"
              THEN /\ call' = PathCall("apply", rel, call.origin)
                   /\ disk' = [removed EXCEPT ![target_path_in_base_code] =
                                  Dir(Below(removed, staged_item_full_path))]
              ELSE /\ call' = PathCall("apply", rel, call.origin)
                   /\ disk' = copy2(removed, removed[staged_item_full_path],
                                    target_path_in_base_code)
    /\ PathOnly

\* clear_staging_area(relative_path), relative_path None for the whole area
ClearAt ==
    /\ \E relative_path \in RelPaths \cup {None} :
          IF relative_path # None
          THEN /\ call' = PathCall("clear", relative_path, call.origin)
               /\ disk' = rmtree(disk, StagedPath(relative_path))
          ELSE IF disk[staging_dir].kind = "absent"
          THEN /\ call' = PathCall("clear", relative_path, call.origin)
               /\ UNCHANGED disk
          ELSE /\ call' = PathCall("clear", relative_path, call.origin)
               /\ disk' = makedirs(rmtree(disk, staging_dir), staging_dir)
    /\ PathOnly

PathNext ==
    \/ StageAt
    \/ BackupAt
    \/ ApplyAt
    \/ ClearAt

PathSpec == PathInit /\ [][PathNext]_vars

\* ------------------------------------------------------------------ claims

\* The phases of a run, in the order of process_command.
Phases ==
    <<"generate", "extract", "validate_main", "validate_test", "stage_main",
      "stage_test", "confirm", "backup", "apply">>

Entered(phase) == \E i \in 1..Len(obs.trace) : obs.trace[i] = phase

IsPrefix(s, t) == Len(s) <= Len(t) /\ SubSeq(t, 1, Len(s)) = s

RunOver == pc \in {"done", "idle"}

\* The run failed while it was in `phase`.
FailedIn(phase) ==
    /\ obs.failed.taken
    /\ obs.failed.trace # <<>>
    /\ obs.failed.trace[Len(obs.failed.trace)] = phase

\* C1: the live codebase differs from what it was when the run started only
\* if the operator answered "yes" at the confirmation prompt of this run; so a
\* run that ends in any other way leaves it as it was.
C1_LiveChangesOnlyAfterYes ==
    obs.start.taken => (live # obs.start.live => obs.answer = "yes")

\* C1 witness: a confirmed run has ended and has changed the live codebase.
C1_Witness ==
    /\ pc = "done"
    /\ obs.answer = "yes"
    /\ history.status = "success"
    /\ live # obs.start.live

\* C2 (the claim as stated): the confirmation prompt is reached only after
\* the test runner was run on the staged tests in this run.
C2_ConfirmationOnlyAfterTests ==
    Entered("confirm") => Entered("run_tests")

\* C3: the live artifact at the target path differs from what it was when the
\* run started only if the backup of that path was entered and did not fail;
\* and a run whose backup raised is over only as a failure, with the live
\* codebase as it was.
C3_BackupBeforeApply ==
    obs.start.taken =>
        /\ live[relative_target_path] # obs.start.live[relative_target_path]
              => Entered("backup") /\ ~FailedIn("backup")
        /\ FailedIn("backup") =>
              /\ live = obs.start.live
              /\ pc \in {"except_apply", "done", "idle"}
              /\ RunOver => /\ history.status = "failure"
                            /\ feedback.message = "Self-update application failed."

\* C3 witness: an existing artifact was backed up and then replaced.
C3_Witness ==
    /\ pc = "done"
    /\ history.status = "success"
    /\ LiveExists(obs.start.live, relative_target_path)
    /\ live[relative_target_path] # obs.start.live[relative_target_path]
    /\ backups # obs.start.backups

\* C4: the phases a run has entered are an initial part of generation,
\* extraction, validation (main, test), staging (main, test), confirmation,
\* backup, apply, each entered once; and no phase is entered after one failed.
C4_PhasesInOrder ==
    /\ IsPrefix(obs.trace, Phases)
    /\ obs.failed.taken => obs.trace = obs.failed.trace

\* C4 witness: a run went through every phase.
C4_Witness == pc = "done" /\ obs.trace = Phases

\* The text holds `begin`, and `end` somewhere after it.
HasPair(text, begin, end) ==
    \E i, j \in 1..Len(text) :
        /\ Occurs(text, begin, i)
        /\ Occurs(text, end, j)
        /\ j >= i + Len(begin)

ExtractionFailures ==
    {"Self-update code extraction failed.", "Self-update test code extraction failed."}

\* C5: when the bundle lacks the main marker pair or the test marker pair, or
\* has one out of order, the extraction step ends the run as a failure of the
\* extraction, no staging having been entered and the staging area being what
\* it was when the run started.
C5_MissingMarkersFailAtExtraction ==
    [][(/\ pc = "extract"
        /\ \/ ~HasPair(generated_code, main_code_marker, end_main_code_marker)
           \/ ~HasPair(generated_code, test_code_marker, end_test_code_marker))
       => /\ pc' = "done"
          /\ history'.status = "failure"
          /\ feedback'.message \in ExtractionFailures
          /\ obs'.trace = <<"generate", "extract">>
          /\ staging' = obs.start.staging]_vars

\* C5 witness: a run ended at the extraction for its missing tests, the main
\* code having been extracted.
C5_Witness ==
    /\ pc = "done"
    /\ feedback.message = "Self-update test code extraction failed."
    /\ ~Falsy(code_to_stage)
    /\ test_code_to_stage = None
    /\ staging = obs.start.staging

ValidationFailures ==
    {"Self-update main code validation failed.", "Self-update test code validation failed."}

\* Both sections were extracted and one of them does not parse.
ExtractedCodeFailsParsing ==
    /\ ~Falsy(code_to_stage)
    /\ ~Falsy(test_code_to_stage)
    /\ ~ast_parse(code_to_stage) \/ ~ast_parse(test_code_to_stage)

\* C6 (the claim as stated): when a run has ended on extracted code that
\* fails static parsing, no staged file exists in the staging area.
C6_NoStagedFileAfterInvalidCode ==
    (RunOver /\ ExtractedCodeFailsParsing)
        => \A p \in StagePaths : staging[p] = Absent

\* C6 (amended): a run whose extracted main or test code fails static parsing
\* never enters staging and ends as a failure of the validation; the staging
\* area stays what it was when the run started, files staged by earlier runs
\* included.
C6_InvalidCodeStagesNothing ==
    ExtractedCodeFailsParsing =>
        /\ pc \in {"validate_main", "validate_test", "done", "idle"}
        /\ ~Entered("stage_main") /\ ~Entered("stage_test")
        /\ staging = obs.start.staging
        /\ RunOver => /\ history.status = "failure"
                      /\ feedback.message \in ValidationFailures

\* C6 witness: a run ended on test code that does not parse, with the main
\* code of an earlier run still staged.
C6_Witness ==
    /\ pc = "done"
    /\ ast_parse(code_to_stage)
    /\ ~Falsy(test_code_to_stage) /\ ~ast_parse(test_code_to_stage)
    /\ staging[relative_target_path] # Absent

\* C7: once the operator has answered "no" the run is over, recorded as
\* cancelled; what it staged as main and test code is staged still, no backup
\* was made and the live codebase is what it was when the run started.
C7_CancelKeepsEverything ==
    obs.answer = "no" =>
        /\ RunOver
        /\ history.status = "failure"
        /\ feedback.message = "Self-update cancelled by user."
        /\ staging[relative_target_path] = File(code_to_stage)
        /\ staging[relative_test_target_path] = File(test_code_to_stage)
        /\ backups = obs.start.backups
        /\ live = obs.start.live

\* C7 witness: an update of an existing artifact was cancelled.
C7_Witness ==
    /\ pc = "done"
    /\ obs.answer = "no"
    /\ LiveExists(live, relative_target_path)

\* C8: when a failed run is over, the staging area, the backups and the live
\* codebase are what they were at the moment of the failure (nothing is
\* cleaned up or rolled back), and whatever was staged or backed up when the
\* run started is staged or backed up still.
C8_FailureDeletesNothing ==
    (RunOver /\ obs.failed.taken) =>
        /\ history.status = "failure"
        /\ staging = obs.failed.staging
        /\ backups = obs.failed.backups
        /\ live = obs.failed.live
        /\ \A p \in StagePaths : obs.start.staging[p] # Absent => staging[p] # Absent
        /\ \A n \in DOMAIN obs.start.backups : n \in DOMAIN backups

\* C8 witness: the final copy failed after the old artifact was removed; the
\* run is over with its backup and its staged files in place.
C8_Witness ==
    /\ pc = "done"
    /\ FailedIn("apply")
    /\ LiveExists(obs.start.live, relative_target_path)
    /\ live[relative_target_path] = Absent
    /\ staging[relative_target_path] # Absent
    /\ backups # obs.start.backups

\* The command's row holds a terminal status and its message.
TerminalOutcome ==
    \/ history.status = "success" /\ history.result_summary # <<>>
    \/ history.status = "failure" /\ history.error_message # <<>>

\* C9: every authenticated propose_self_update run comes to its end with the
\* status "success" or "failure" and a message recorded for its command,
\* whatever was raised on the way and however often the operator's answer
\* was neither yes nor no.
C9_RunEndsWithOutcome ==
    (pc = "dispatch") ~> (pc = "done" /\ TerminalOutcome)

\* C9 witness: a run ended as a success after an invalid answer at the prompt.
C9_Witness ==
    /\ pc = "done"
    /\ reprompts > 0
    /\ history.status = "success"

\* The error of a failed generation as the collaborator gave it.
CollaboratorError ==
    CASE obs.response.kind = "raise" -> <<obs.response.exception>>
      [] obs.response.kind = "failure" ->
            <<obs.response.error>>
                \o (IF obs.response.details = "" THEN <<>>
                    ELSE <<": ", obs.response.details>>)
      [] OTHER -> <<"LLM generated an empty response.">>

\* C10: when the generation call raised, returned success=false or returned
\* an empty text, the run enters no phase after the generation, leaves the
\* three trees as they were, and ends as a failure with the collaborator's
\* error recorded.
C10_GenerationFailureStopsRun ==
    obs.response.kind \in {"raise", "failure", "empty"} =>
        /\ obs.trace = <<"generate">>
        /\ pc \in {"except_outer", "done", "idle"}
        /\ live = obs.start.live
        /\ staging = obs.start.staging
        /\ backups = obs.start.backups
        /\ RunOver => /\ history.status = "failure"
                      /\ history.error_message = CollaboratorError

\* C10 witness: a run ended on a success=false response with details.
C10_Witness ==
    /\ pc = "done"
    /\ obs.response.kind = "failure"
    /\ obs.response.details # ""

\* C11: when the main code was staged and the staging of the test code
\* raised, the request is a staging failure as a whole: the confirmation
\* prompt is not shown, the operator is not asked, no backup is taken, the
\* live codebase is not touched, and the run ends recorded as the failure
\* "Self-update code staging failed.".
C11_TestStagingFailureFailsRequest ==
    FailedIn("stage_test") =>
        /\ Entered("stage_main")
        /\ ~Entered("confirm") /\ ~Entered("backup") /\ ~Entered("apply")
        /\ obs.answer = "none"
        /\ pc \in {"except_stage", "done", "idle"}
        /\ backups = obs.start.backups
        /\ live = obs.start.live
        /\ RunOver => /\ history.status = "failure"
                      /\ feedback.message = "Self-update code staging failed."

\* C11 witness: a run is over whose main code is staged and whose test code
\* is not, the copy of the test code having failed.
C11_Witness ==
    /\ pc = "done"
    /\ FailedIn("stage_test")
    /\ staging[relative_target_path] = File(code_to_stage)
    /\ staging[relative_test_target_path] = Absent

\* The run ended APPLIED: recorded as a success, the live target a file with
\* exactly the extracted main code, and no backup record made when nothing was
\* at the target when the run started.
EndedApplied ==
    /\ history.status = "success"
    /\ feedback.message = "Self-update applied."
    /\ live[relative_target_path] = File(code_to_stage)
    /\ ~LiveExists(obs.start.live, relative_target_path) => backups = obs.start.backups

Returned(op) == call.op = op /\ call.raised = "none"

\* C13: after apply_staged_update has returned, the live artifact at the
\* target is the staged artifact, in kind and in content, whatever was at the
\* target before; nothing of the old artifact is left.
C13_AppliedEqualsStaged ==
    Returned("apply") =>
        /\ live[relative_target_path] = call.before.staging[relative_target_path]
        /\ live[relative_target_path] = staging[relative_target_path]
        /\ LiveExists(live, relative_target_path)

\* C13 witness: a staged file was applied where a directory with another
\* content was.
C13_Witness ==
    /\ Returned("apply")
    /\ call.before.live[relative_target_path].kind = "dir"
    /\ call.before.live[relative_target_path].data # {}
    /\ live[relative_target_path].kind = "file"

\* C14: backups are append-only and unique: no call of backup_module_or_file
\* changes or removes a record that was there before it, and a call that made
\* a backup made it under a name no earlier record has.
C14_BackupsAppendOnly ==
    call.op = "backup" =>
        /\ \A n \in DOMAIN call.before.backups :
              n \in DOMAIN backups /\ backups[n] = call.before.backups[n]
        /\ (call.raised = "none" /\ call.made) =>
              /\ call.name \notin DOMAIN call.before.backups
              /\ call.name \in DOMAIN backups

\* C15: backup_module_or_file on a path that is not in the live codebase
\* returns None without raising and changes nothing: no record is made, and
\* the backup archive, the live tree and the staging area stay as they were.
C15_BackupOfMissingPathIsNoOp ==
    (call.op = "backup" /\ ~LiveExists(call.before.live, relative_target_path)) =>
        /\ call.raised = "none"
        /\ ~call.made
        /\ backups = call.before.backups
        /\ live = call.before.live
        /\ staging = call.before.staging

\* C15 witness: a backup of an absent target returned None, next to the
\* record of an earlier backup.
C15_Witness ==
    /\ Returned("backup")
    /\ ~call.made
    /\ live[relative_target_path] = Absent
    /\ backups # <<>>

\* C16: a backup that was made holds what the live artifact was at the moment
\* of the call, a file or a whole directory, and the call leaves the live
\* tree and the staging area as they were.
C16_BackupHoldsLiveContent ==
    (Returned("backup") /\ call.made) =>
        /\ call.name \in DOMAIN backups
        /\ backups[call.name] = call.before.live[relative_target_path]
        /\ live = call.before.live
        /\ staging = call.before.staging


\* C17: the result's success is true exactly when no executor-level error is
\* set and the return code is 0; a result without an executor-level error
\* reports the return code of the ended child, whatever it is.
C17_SuccessIffNoErrorAndZero ==
    result.returned =>
        /\ result.success <=> (result.error = None /\ result.return_code = 0)
        /\ result.error = None =>
              /\ process.state \in {"exited", "signaled"}
              /\ result.return_code = process.returncode

\* C17: a child that exited with code 5 yields success false and code 5.
C17_Witness ==
    /\ result.returned
    /\ result.error = None
    /\ process.state = "exited"
    /\ result.return_code = 5
    /\ ~result.success

\* C18: a child the timeout handler had to kill yields a result with success
\* false, the error 'Execution timed out.', and as stdout and stderr all that
\* the child had written before it was killed.
C18_TimeoutKeepsOutput ==
    process.state = "killed" =>
        /\ result.returned
        /\ ~result.success
        /\ result.error = <<"Execution timed out.">>
        /\ result.stdout = process.stdout
        /\ result.stderr = process.stderr

\* C19: the result's return code is -1 exactly when an executor-level error
\* is set.
C19_MinusOneIffExecutorError ==
    result.returned => (result.return_code = -1 <=> result.error # None)

\* C20: once execute_python_snippet has ended, by a result or by an
\* exception, the temporary source file of the call no longer exists.
C20_TempFileGoneAfterCall ==
    xpc \in {"returned", "raised"} => ~tmp_script


\* A step in which Popen raised: the call leaves the spawn and no child runs.
SpawnFails == xpc = "spawn" /\ xpc' \notin {"spawn", "communicate"}

\* A call whose Popen raised: a result was returned and no child ever ran.
SpawnFailed == result.returned /\ process.state = "none"

\* C21: when the spawn fails, for whatever reason, the call returns (does
\* not raise) a result with success false, empty stdout and empty stderr, an
\* executor-level error and return code -1.
C21_SpawnFailureGivesEmptyOutput ==
    [][SpawnFails =>
          /\ xpc' = "returned"
          /\ result'.returned
          /\ ~result'.success
          /\ result'.stdout = <<>>
          /\ result'.stderr = <<>>
          /\ result'.error # None
          /\ result'.return_code = -1]_vars

\* C21 as the code has it: when the spawn fails, the call returns (does not
\* raise) a result with success false, empty stdout, an executor-level error
\* and return code -1; stderr is empty when the interpreter was not found
\* and is the text of the exception for any other failure of the spawn.
C21_SpawnFailureGivesErrorResult ==
    [][SpawnFails =>
          /\ xpc' = "returned"
          /\ result'.returned
          /\ ~result'.success
          /\ result'.stdout = <<>>
          /\ result'.error # None
          /\ result'.return_code = -1
          /\ \/ /\ result'.error = <<"Python interpreter not found">>
                /\ result'.stderr = <<>>
             \/ /\ Len(result'.stderr) = 1
                /\ result'.error = <<"An unexpected error occurred: ", result'.stderr[1]>>]_vars

\* C21: a spawn that failed with an error other than FileNotFoundError.
C21_Witness ==
    /\ SpawnFailed
    /\ xpc = "returned"
    /\ result.stderr = <<"OSError">>
    /\ result.return_code = -1


\* C24: the staging root and the backup root exist whenever an operation of
\* the AIUpdater starts; an operation that meets a missing root creates it
\* and does not fail, and a clear of the whole area leaves the staging root
\* existing.
C24_RootsExistAtEveryCall ==
    call.op # "none" =>
        /\ call.roots.staging
        /\ call.roots.backup
        /\ (call.op \in {"stage", "clear"} /\ ~call.roots.staging) =>
              (call.raised = "none" /\ roots.staging)
        /\ (call.op = "clear" /\ call.rel = None) => roots.staging

\* C25: stage_code_from_source with a source path that does not exist raises
\* FileNotFoundError and leaves the staging area with its root, the backup
\* archive and the live tree as they were.
C25_MissingSourceStagesNothing ==
    (call.op = "stage" /\ call.source = Absent) =>
        /\ call.raised = "FileNotFoundError"
        /\ staging = call.before.staging
        /\ roots = call.roots
        /\ backups = call.before.backups
        /\ live = call.before.live

\* C25: the source was missing while something else was staged at the path.
C25_Witness ==
    /\ call.op = "stage"
    /\ call.source = Absent
    /\ call.raised = "FileNotFoundError"
    /\ call.before.staging[call.rel] # Absent

\* C26: after stage_code_from_source has returned, the staged item at rel is
\* the source, in kind and in content, whatever was staged at rel before.
C26_StagedEqualsSource ==
    Returned("stage") => staging[call.rel] = call.source

\* C27: clear_staging_area(rel) that returned has removed the staged item at
\* rel and nothing else: every other staged item, the backups and the live
\* tree are as before; with nothing staged at rel it returns without error
\* and changes nothing.
C27_ClearItemRemovesOnlyIt ==
    (call.op = "clear" /\ call.rel # None) =>
        /\ Returned("clear") =>
              /\ staging = [call.before.staging EXCEPT ![call.rel] = Absent]
              /\ backups = call.before.backups
              /\ live = call.before.live
        /\ call.before.staging[call.rel] = Absent =>
              (call.raised = "none" /\ staging = call.before.staging)

\* C27: a staged item was cleared and the other staged item is still there.
C27_Witness ==
    /\ Returned("clear")
    /\ call.rel = relative_target_path
    /\ call.before.staging[relative_target_path] # Absent
    /\ staging[relative_target_path] = Absent
    /\ staging[relative_test_target_path] # Absent

\* C28: clear_staging_area() that returned leaves the staging root existing
\* and empty, whatever was staged, and the backups and the live tree as
\* before.
C28_ClearAllLeavesEmptyRoot ==
    (Returned("clear") /\ call.rel = None) =>
        /\ roots.staging
        /\ \A p \in StagePaths : staging[p] = Absent
        /\ backups = call.before.backups
        /\ live = call.before.live

\* C28: the whole area was cleared while both paths held a staged item.
C28_Witness ==
    /\ Returned("clear")
    /\ call.rel = None
    /\ \A p \in StagePaths : call.before.staging[p] # Absent
    /\ \A p \in StagePaths : staging[p] = Absent
    /\ roots.staging

Updating(t) == tasks[t].pc \in {"stage_test", "confirm", "backup", "apply"}

\* The task is applying: between the start of the backup and the end of the
\* copy into the live tree.
Applying(t) == tasks[t].pc \in {"backup", "apply"}

\* C22: at most one update request is applying at any time, and a request
\* that is staging, waiting for the confirmation or applying is the task the
\* loop's thread runs, so that no other request stages, backs up or applies
\* in between; requests interleave only at the awaited generation call.
C22_OneRequestApplying ==
    /\ Cardinality({t \in Tasks : Applying(t)}) <= 1
    /\ \A t \in Tasks : Updating(t) =>
          /\ running = t
          /\ \A u \in Tasks \ {t} :
                tasks[u].pc \in {"none", "scheduled", "awaiting_generation",
                                 "generated", "awaiting_tests", "thread_done", "done"}

\* C22: a request is applying while another has its generated code and
\* waits for the loop's thread.
C22_Witness ==
    \E t, u \in Tasks :
        /\ tasks[t].pc = "apply"
        /\ tasks[u].command = "propose_self_update"
        /\ tasks[u].pc = "generated"

\* C23: a task that waits for a snippet or for a test run to end does not
\* hold the loop's thread, so another task can run meanwhile, and it goes on
\* only when the outcome of the process is there.
C23_ProcessesAreOffloaded ==
    \A t \in Tasks :
        /\ tasks[t].pc \in {"snippet", "awaiting_tests"} => running # t
        /\ tasks[t].pc \in {"report", "collect"} => tasks[t].outcome.kind # "none"

\* What pytest wrote is in the output as it was captured.
Attached(output, completed) ==
    /\ \E i \in 1..Len(output) : Occurs(output, completed.stdout \o <<"\n">>, i)
    /\ completed.stderr # <<>> =>
          \E i \in 1..Len(output) : Occurs(output, completed.stderr \o <<"\n">>, i)

\* C30: the result of _execute_staged_tests follows from how the pytest run
\* ended: exit code 0 gives passed; exit code 1 gives not passed with the
\* captured stdout and stderr attached; any other exit code gives not passed
\* with the output after a tool-level error marker; the timeout of 60
\* seconds or any other exception gives not passed with a message.
C30_TestResultFollowsOutcome ==
    \A t \in Tasks :
        (tasks[t].command = "_execute_staged_tests" /\ tasks[t].pc = "done") =>
            LET completed == tasks[t].outcome
                r == tasks[t].result
            IN  CASE completed.kind = "exit" /\ completed.returncode = 0 -> r.passed
                  [] completed.kind = "exit" /\ completed.returncode = 1 ->
                       /\ ~r.passed
                       /\ Head(r.output) = "Pytest STDOUT:\n"
                       /\ Attached(r.output, completed)
                  [] completed.kind = "exit" /\ completed.returncode \notin {0, 1} ->
                       /\ ~r.passed
                       /\ Head(r.output) = "Pytest execution error (code "
                       /\ r.output[2] = ReturnCodeText(completed.returncode)
                       /\ Attached(r.output, completed)
                  [] completed.kind = "TimeoutExpired" ->
                       /\ ~r.passed
                       /\ completed.after = 60
                       /\ r.output = <<"Pytest execution timed out.">>
                  [] OTHER ->
                       /\ ~r.passed
                       /\ r.output # <<>>

\* C30: pytest exited with code 1 after writing to both streams.
C30_Witness ==
    \E t \in Tasks :
        /\ tasks[t].pc = "done"
        /\ tasks[t].outcome.kind = "exit"
        /\ tasks[t].outcome.returncode = 1
        /\ tasks[t].outcome.stderr # <<>>
        /\ ~tasks[t].result.passed


\* The text without the whitespace at its two ends.
Trimmed(s) ==
    LET inked == {i \in 1..Len(s) : s[i] \notin Whitespace}
    IN  IF inked = {} THEN <<>>
        ELSE SubSeq(s, CHOOSE i \in inked : \A j \in inked : i <= j,
                       CHOOSE i \in inked : \A j \in inked : j <= i)

\* What lies between the first begin marker and the first end marker that
\* starts at or after the end of that begin marker, trimmed; None when there
\* is no begin marker or no such end marker.
Between(text, begin, end) ==
    LET begins == {i \in 1..Len(text) : Occurs(text, begin, i)}
    IN  IF begins = {} THEN None
        ELSE LET b == CHOOSE i \in begins : \A j \in begins : i <= j
                 ends == {i \in (b + Len(begin))..Len(text) : Occurs(text, end, i)}
             IN  IF ends = {} THEN None
                 ELSE LET e == CHOOSE i \in ends : \A j \in ends : i <= j
                      IN  Trimmed(SubSeq(text, b + Len(begin), e - 1))

\* C31: extract_code_between_markers returns the trimmed text between the
\* first begin marker and the first end marker at or after its end, and None
\* when the begin marker does not occur or no end marker occurs after it.
C31_ExtractsBetweenMarkers ==
    /\ pc \in {"extract_test", "extracted"} =>
          code_to_stage = Between(generated_code, main_code_marker, end_main_code_marker)
    /\ pc = "extracted" =>
          test_code_to_stage
              = Between(generated_code, test_code_marker, end_test_code_marker)

\* C31: an end marker stands before the begin marker and another after it;
\* the code between the pair has whitespace around it.
C31_Witness ==
    /\ pc = "extracted"
    /\ generated_code = end_main_code_marker \o main_code_marker \o <<" ", "a", " ">>
                            \o end_main_code_marker
    /\ code_to_stage = <<"a">>
    /\ test_code_to_stage = None


\* What the live target was when the run started.
OriginalArtifact == obs.start.live[relative_target_path]

\* A backup record that this run wrote holds the original artifact.
BackedUpByThisRun ==
    \E n \in DOMAIN backups :
        /\ backups[n] = OriginalArtifact
        /\ n \in DOMAIN obs.start.backups => obs.start.backups[n] # backups[n]

\* C32: from the backup step of a run onward, what the live target was when
\* the run started is still at the live target or is held, unchanged, by a
\* backup record that the run made.
C32_NoContentLost ==
    (Entered("backup") /\ LiveExists(obs.start.live, relative_target_path)) =>
        \/ live[relative_target_path] = OriginalArtifact
        \/ BackedUpByThisRun

\* The API key of the command received was refused, and is_authenticated has
\* answered.
AuthenticationFailed ==
    runs > 0 /\ ~command_struct.authenticated /\ pc # "authenticate"

\* C33: a command whose API key fails authentication has no side effect but
\* its log entry: process_command returns at once, the generation service is
\* not called, no step of the update is entered, no snippet process exists,
\* the live tree, the staging area and the backups are what they were when the
\* command was received, and the log entry has status "failure".
C33_AuthFailureHasNoSideEffect ==
    AuthenticationFailed =>
        /\ RunOver
        /\ history.status = "failure"
        /\ history.error_message = <<"Authentication failed. Invalid API key.">>
        /\ generated_code = None
        /\ code_to_stage = None /\ test_code_to_stage = None
        /\ obs.trace = <<>>
        /\ obs.answer = "none"
        /\ live = obs.start.live
        /\ staging = obs.start.staging
        /\ backups = obs.start.backups
        /\ process = NoProcess /\ tmp_script = FALSE

\* C33, the case: a second command is refused after a first one was applied,
\* and process_command has returned.
C33_Witness ==
    /\ AuthenticationFailed
    /\ pc = "done"
    /\ runs = 2
    /\ history.status = "failure"
    /\ backups # <<>>

\* The last run wrote the staged main artifact, the staged test artifact.
MainStagedByRun == Entered("stage_main") /\ ~FailedIn("stage_main")
TestStagedByRun == Entered("stage_test") /\ ~FailedIn("stage_test")

\* C34: after a run, when the staged main artifact and the staged test
\* artifact both exist, the last run has written both or neither of them (and
\* then they are the pair the runs before left).
C34_StagedPairFromOneRequest ==
    (/\ RunOver
     /\ runs > 0
     /\ staging[relative_target_path].kind # "absent"
     /\ staging[relative_test_target_path].kind # "absent")
        => (MainStagedByRun <=> TestStagedByRun)

\* C35: a run is recorded as "Self-update code staging failed." only if one
\* of its two staging calls raised.
C35_StagingFailureMeansStagingRaised ==
    (/\ RunOver
     /\ runs > 0
     /\ history.status = "failure"
     /\ feedback.message = "Self-update code staging failed.")
        => (FailedIn("stage_main") \/ FailedIn("stage_test"))

\* The path p is the directory root or below it.
Inside(root, p) == IsPrefix(root, p)

\* The paths a call changes: written, created or deleted.
Changed == {p \in DOMAIN disk : disk'[p] # disk[p]}

\* C36: every AIUpdater operation stays inside its roots for every relative
\* path argument: stage and clear change only paths under the staging root,
\* backup reads only under the live root and changes only paths under the
\* backup root, apply reads only under the staging root and changes only
\* paths under the live root.
C36_OperationsStayInsideRoots ==
    [][/\ call'.op \in {"stage", "clear"} =>
              \A p \in Changed : Inside(staging_dir, p)
       /\ call'.op = "backup" =>
              /\ \A p \in Changed : Inside(backup_dir, p)
              /\ Changed # {} => Inside(base_code_dir, TargetPath(call'.rel))
       /\ call'.op = "apply" =>
              /\ \A p \in Changed : Inside(base_code_dir, p)
              /\ Changed # {} => Inside(staging_dir, StagedPath(call'.rel))]_vars

\* C37: the name of a backup record determines the relative path it was
\* taken from: a backup writes a record whose sanitized name prefix no other
\* relative path has, and never a record that was written for another path.
C37_RecordNameDeterminesPath ==
    [][(call'.op = "backup" /\ Changed # {}) =>
           /\ \A other \in BackupPaths \ {call'.rel} :
                 Sanitize(other) # Sanitize(call'.rel)
           /\ \A record \in DOMAIN call.origin :
                 call.origin[record] \in {NoOrigin, call'.origin[record]}]_vars

\* The run has ended APPLIED.
RunEndedApplied == RunOver /\ runs > 0 /\ history.status = "success"

\* C38 as stated: a run that ends APPLIED has changed no live path but the
\* target of the main artifact.
C38_AppliedChangesOnlyTarget ==
    RunEndedApplied =>
        \A p \in LivePaths \ {relative_target_path} : live[p] = obs.start.live[p]

\* C38, amended: a run that ends APPLIED has changed no live path but the
\* target of the main artifact and its parent directory, which it has made
\* if it was not there; the staged tests are not in the live codebase.
C38_AppliedChangesTargetAndMakesParent ==
    RunEndedApplied =>
        /\ \A p \in LivePaths \ {relative_target_path, Dirname(relative_target_path)} :
              live[p] = obs.start.live[p]
        /\ live[relative_test_target_path] = obs.start.live[relative_test_target_path]
        /\ \/ live[Dirname(relative_target_path)] = obs.start.live[Dirname(relative_target_path)]
           \/ /\ obs.start.live[Dirname(relative_target_path)] = Absent
              /\ live[Dirname(relative_target_path)] = Dir({})
        /\ live[relative_target_path].kind # "absent"

\* C38, the case: the run ended APPLIED, with tests staged, and has made the
\* parent directory of the target.
C38_Witness ==
    /\ RunEndedApplied
    /\ pc = "done"
    /\ obs.start.live[Dirname(relative_target_path)] = Absent
    /\ live[Dirname(relative_target_path)] = Dir({})
    /\ live[relative_target_path] # obs.start.live[relative_target_path]
    /\ staging[relative_test_target_path].kind = "file"

\* The text holds the marker pair in order, around nothing but whitespace.
EnclosesOnlyWhitespace(text, begin, end) == Between(text, begin, end) = <<>>

\* C39: a bundle whose main or test marker pair is present, in order, and
\* encloses only whitespace ends the run at the extraction, as a failure with
\* the message of the missing pair, nothing staged and the live tree as it
\* was; and no empty file is ever staged or at the live target.
C39_WhitespaceBodyFailsAtExtraction ==
    [][/\ (/\ pc = "extract"
           /\ \/ EnclosesOnlyWhitespace(generated_code, main_code_marker,
                                        end_main_code_marker)
              \/ EnclosesOnlyWhitespace(generated_code, test_code_marker,
                                        end_test_code_marker))
          => /\ pc' = "done"
             /\ history'.status = "failure"
             /\ feedback'.message =
                   IF Falsy(Between(generated_code, main_code_marker, end_main_code_marker))
                   THEN "Self-update code extraction failed."
                   ELSE "Self-update test code extraction failed."
             /\ obs'.trace = <<"generate", "extract">>
             /\ staging' = obs.start.staging
             /\ live' = obs.start.live
       /\ \A p \in StagePaths : staging'[p] # File(<<>>)
       /\ live'[relative_target_path] # File(<<>>)]_vars

\* C39, the case: the main code extracted is empty (the pair was there, around
\* whitespace only), and the run has ended at the extraction with nothing
\* staged.
C39_Witness ==
    /\ pc = "done"
    /\ code_to_stage = <<>>
    /\ obs.trace = <<"generate", "extract">>
    /\ feedback.message = "Self-update code extraction failed."
    /\ staging = obs.start.staging

====
